---- MODULE Spec2Model ----
(***************************************************************************)
(* Verification model of the containment-detection analysis tools:         *)
(*   src/src/analysis/analyze_compression.js  (two-condition aggregator)   *)
(*   src/src/metrics/containment.js           (metrics and detectors)      *)
(*   src/src/analysis/analyze_multiturn.js    (sequence aggregator)        *)
(*   src/src/analysis/export_for_r.js         (export normalizer)          *)
(* Each program has its own specification over the shared variables.       *)
(***************************************************************************)
EXTENDS Integers, Sequences, FiniteSets, TLC

VARIABLES
    \* ---- analyze_compression.js ----
    pc,                 \* position in the running script
    results,            \* data.results.results (the input records)
    idx,                \* number of records results.forEach has visited
    topics,             \* topics[topic] = {baseline, trigger}
    topicKeys,          \* Object.keys(topics): insertion order
    baseline,           \* baseline pool (token counts)
    trigger,            \* trigger pool (token counts)
    baselineTotal,
    triggerTotal,
    compression,        \* overall compression, the toFixed(1) text
    h1,                 \* "H1 (>50%)" verdict printed with the overall results
    topicCompressions,  \* per-group list, by compression descending (by name once exported)
    h1Summary,          \* H1 verdict of the hypothesis-testing summary
    pattern,            \* containment pattern label printed at the end
    tierReport,         \* the epistemic tier analysis that was printed
    topList,            \* the "top most compressed" list that was printed
    bottomList,         \* the "bottom least compressed" list that was printed
    csvRows,            \* the rows written to the compression CSV file
    \* ---- containment.js ----
    fn,                 \* the exported function that has been called ("" = none yet)
    output,             \* the response text
    ctxBaseline,        \* context.baseline
    history,            \* context.history
    threshold,          \* context.threshold
    ret,                \* the value the called function returned
    \* ---- analyze_multiturn.js and export_for_r.js ----
    program,            \* which of the two scripts runs on the results file
    rawResults,         \* data.results.results of the five-turn results file
    metrics,            \* analyze_multiturn: the per-record metrics (and CSV rows)
    turnReport,         \* analyze_multiturn: the "metrics by turn" that were printed
    rowIdx,             \* export_for_r: number of records results.forEach has visited
    rows,               \* export_for_r: the extracted rows
    warnings,           \* export_for_r: the console.warn lines, one per skipped record
    byTurn,             \* export_for_r: the summary by turn
    printed,            \* the counts the script has printed
    dissenterAnalysis,  \* analyze_multiturn: the dissenter analysis of turn 3
    lockIn,             \* analyze_multiturn: the lock-in test (turn 1 vs turn 2)
    escapeTest,         \* analyze_multiturn: the escape test (turn 1 vs turn 5)
    keyFindings,        \* analyze_multiturn: the numbered findings of the summary
    \* ---- filename-generator.js and run-test.js ----
    directory,          \* the file names in the output directory
    options,            \* model, testType and configId given on the command line
    now,                \* the clock: what new Date() reads (minutes of the day)
    created,            \* the runs made so far: iteration and file name of each
    parsed              \* generateFilename's name and what parseFilename made of it

reportVars == <<tierReport, topList, bottomList, csvRows>>

compData == <<results, idx, topics, topicKeys, baseline, trigger,
              baselineTotal, triggerTotal, compression, h1,
              topicCompressions, h1Summary, pattern, reportVars>>

compVars == <<pc, compData>>

detVars == <<fn, output, ctxBaseline, history, threshold, ret>>

mtAnalyses == <<dissenterAnalysis, lockIn, escapeTest, keyFindings>>

seqVars == <<program, rawResults, metrics, turnReport, rowIdx, rows, warnings,
             byTurn, printed, mtAnalyses>>

fileVars == <<directory, options, now, created, parsed>>

vars == <<compVars, detVars, seqVars, fileVars>>

----------------------------------------------------------------------------
(* Bounds of the model *)

MaxRecords == 3
MaxHistory == 2

----------------------------------------------------------------------------
(* Generic helpers *)

RECURSIVE SumSeq(_)
SumSeq(s) == IF s = <<>> THEN 0 ELSE Head(s) + SumSeq(Tail(s))

\* n/d rounded to the nearest integer, halves away from zero (d > 0):
\* the rounding Number.prototype.toFixed applies to an exactly represented
\* value.
RoundHalfAway(n, d) ==
    IF n >= 0 THEN (2 * n + d) \div (2 * d)
              ELSE -((2 * (-n) + d) \div (2 * d))

\* A JavaScript value that is either null or a number.
Null == [isNull |-> TRUE, v |-> 0]
Num(x) == [isNull |-> FALSE, v |-> x]
\* JavaScript truthiness of such a value: null and 0 are falsy.
Truthy(x) == ~x.isNull /\ x.v # 0

----------------------------------------------------------------------------
(* analyze_compression.js: inputs *)

Topics == {"evolution", "cryonics"}

\* Prompts are sequences of words; the two string tests of the script are
\* String.startsWith on the first word and String.includes on any word.
Prompts == { <<"Analyse", "topic">>,
             <<"Analyze", "expert", "views">>,
             <<"Most", "experts", "agree">>,
             <<"Discuss", "topic">> }

\* Token counts: 1010 -> 303 is a compression of exactly 70%, 2021 -> 1010 one
\* of 50.02%; no sum of up to five of them meets a rounding tie that binary
\* floating point would resolve differently from RoundHalfAway.
TokenValues == {0, 303, 1010, 2021}

RawRecords == [topic : Topics, prompt : Prompts, tokens : TokenValues]

RECURSIVE SeqsUpTo(_, _)
SeqsUpTo(S, n) ==
    IF n = 0 THEN { <<>> }
    ELSE LET shorter == SeqsUpTo(S, n - 1)
         IN shorter \cup { Append(s, x) : s \in { t \in shorter : Len(t) = n - 1 }, x \in S }

\* prompt.startsWith('Analyse') || prompt.startsWith('Analyze')
WordStartsWithAnalyse(w) == w \in {"Analyse", "Analyses", "Analyze", "Analyzes"}
StartsWithAnalyse(prompt) == Len(prompt) > 0 /\ WordStartsWithAnalyse(prompt[1])

\* prompt.includes('expert') || prompt.includes('consensus')
WordIncludesKeyword(w) == w \in {"expert", "experts", "consensus"}
IncludesKeyword(prompt) == \E i \in 1..Len(prompt) : WordIncludesKeyword(prompt[i])

\* Mutant of Branch: the keyword test comes first.
BranchKeywordFirst(prompt) ==
    IF IncludesKeyword(prompt) THEN "trigger"
    ELSE IF StartsWithAnalyse(prompt) THEN "baseline"
    ELSE "none"

\* The branch of the if / else-if of the forEach body a prompt takes.
Branch(prompt) ==
    IF StartsWithAnalyse(prompt) THEN "baseline"
    ELSE IF IncludesKeyword(prompt) THEN "trigger"
    ELSE "none"

----------------------------------------------------------------------------
(* analyze_compression.js: numbers rendered by toFixed(1) *)

\* ((b - t) / b * 100).toFixed(1): a number in tenths of a percent, or the
\* text "NaN" / "-Infinity" / "Infinity" when b is 0.
ToFixed1Pct(num, den) ==
    IF den = 0
    THEN [kind |-> IF num = 0 THEN "NaN" ELSE IF num < 0 THEN "-Infinity" ELSE "Infinity",
          tenths |-> 0]
    ELSE [kind |-> "num", tenths |-> RoundHalfAway(1000 * num, den)]

\* compression > bound, the string compared as a number (NaN compares false).
GreaterThan(c, bound) ==
    \/ c.kind = "Infinity"
    \/ c.kind = "num" /\ c.tenths > 10 * bound

\* b.compression - a.compression < 0 in the sort comparator.
NumOf(c) == c.tenths

----------------------------------------------------------------------------
(* analyze_compression.js: the script *)

\* The entry topics[topic] after the forEach body has handled a record.
EntryAfter(entry, branch, tokens) ==
    IF branch = "baseline" THEN [entry EXCEPT !.baseline = Num(tokens)]
    ELSE IF branch = "trigger" THEN [entry EXCEPT !.trigger = Num(tokens)]
    ELSE entry

\* The pool after the forEach body has handled a record of that branch.
PoolAfter(pool, poolName, branch, tokens) ==
    IF branch = poolName THEN Append(pool, tokens) ELSE pool

\* Mutant of OverallCompression: the reduction relative to the trigger total.
OverallCompressionOverTrigger(bTotal, tTotal) == ToFixed1Pct(bTotal - tTotal, tTotal)

\* (baselineTotal - triggerTotal) / baselineTotal * 100, toFixed(1)
OverallCompression(bTotal, tTotal) == ToFixed1Pct(bTotal - tTotal, bTotal)

\* compression > 50 ? 'CONFIRMED' : 'NOT CONFIRMED'
H1Verdict(c) == IF GreaterThan(c, 50) THEN "CONFIRMED" ELSE "NOT CONFIRMED"

\* .filter(t => topics[t].baseline && topics[t].trigger)
IsPaired(entry) == Truthy(entry.baseline) /\ Truthy(entry.trigger)

\* .map(t => ({topic, baseline, trigger, compression}))
TopicRow(t, entry) ==
    [topic |-> t, baseline |-> entry.baseline.v, trigger |-> entry.trigger.v,
     compression |-> ToFixed1Pct(entry.baseline.v - entry.trigger.v, entry.baseline.v)]

\* One insertion of the stable sort by (a, b) => b.compression - a.compression:
\* the row goes after every row whose compression is not smaller.
RECURSIVE InsertDesc(_, _)
InsertDesc(sorted, row) ==
    IF sorted = <<>> THEN <<row>>
    ELSE IF NumOf(Head(sorted).compression) >= NumOf(row.compression)
         THEN <<Head(sorted)>> \o InsertDesc(Tail(sorted), row)
         ELSE <<row>> \o sorted

RECURSIVE SortDesc(_)
SortDesc(list) ==
    IF list = <<>> THEN <<>>
    ELSE InsertDesc(SortDesc(SubSeq(list, 1, Len(list) - 1)), list[Len(list)])

\* Object.keys(topics).filter(...).map(...), in key order, before the sort.
RECURSIVE PairedRows(_, _)
PairedRows(keys, tps) ==
    IF keys = <<>> THEN <<>>
    ELSE (IF IsPaired(tps[Head(keys)])
          THEN <<TopicRow(Head(keys), tps[Head(keys)])>> ELSE <<>>)
         \o PairedRows(Tail(keys), tps)

\* if (compression > 70) STRONG else if (compression > 50) MODERATE else weak
ContainmentPattern(c) ==
    IF GreaterThan(c, 70) THEN "strong"
    ELSE IF GreaterThan(c, 50) THEN "moderate"
    ELSE "weak or no"

InitCompression ==
    /\ pc = "forEach"
    /\ results \in SeqsUpTo(RawRecords, MaxRecords)
    /\ idx = 0
    /\ topics = << >>
    /\ topicKeys = << >>
    /\ baseline = << >>
    /\ trigger = << >>
    /\ baselineTotal = 0
    /\ triggerTotal = 0
    /\ compression = [kind |-> "unset", tenths |-> 0]
    /\ h1 = ""
    /\ topicCompressions = << >>
    /\ h1Summary = ""
    /\ pattern = ""
    /\ tierReport = [run |-> FALSE]
    /\ topList = [shown |-> FALSE]
    /\ bottomList = [shown |-> FALSE]
    /\ csvRows = [written |-> FALSE]
    /\ fn = ""
    /\ output = << >>
    /\ ctxBaseline = << >>
    /\ history = << >>
    /\ threshold = [n |-> 3, d |-> 10]
    /\ ret = [none |-> TRUE]
    /\ program = ""
    /\ rawResults = << >>
    /\ metrics = << >>
    /\ turnReport = << >>
    /\ rowIdx = 0
    /\ rows = << >>
    /\ warnings = << >>
    /\ byTurn = << >>
    /\ printed = << >>
    /\ dissenterAnalysis = [run |-> FALSE]
    /\ lockIn = [run |-> FALSE]
    /\ escapeTest = [run |-> FALSE]
    /\ keyFindings = << >>
    /\ directory = {}
    /\ options = Null
    /\ now = 0
    /\ created = << >>
    /\ parsed = Null

\* r.vars.topic, r.prompt.raw and r.response.tokenUsage.completion are read
\* without a check: a record without vars, without prompt, or without
\* response or token usage (the field is missing from the model's record)
\* makes the read throw a TypeError.
ReadThrows(r) == {"topic", "prompt", "tokens"} \ DOMAIN r # {}

\* results.forEach(r => { ... }): one record.  A TypeError thrown by the
\* reads at the top of the callback is not caught and ends the script.
ForEachRecord ==
    /\ pc = "forEach"
    /\ idx < Len(results)
    /\ IF ReadThrows(results[idx + 1])
       THEN /\ pc' = "aborted"
            /\ UNCHANGED <<idx, topics, topicKeys, baseline, trigger>>
       ELSE /\ LET r == results[idx + 1]
                   branch == Branch(r.prompt)
                   entry == IF r.topic \in DOMAIN topics THEN topics[r.topic]
                            ELSE [baseline |-> Null, trigger |-> Null]
               IN /\ topics' = [t \in DOMAIN topics \cup {r.topic} |->
                                   IF t = r.topic THEN EntryAfter(entry, branch, r.tokens)
                                   ELSE topics[t]]
                  /\ topicKeys' = IF r.topic \in DOMAIN topics THEN topicKeys
                                  ELSE Append(topicKeys, r.topic)
                  /\ baseline' = PoolAfter(baseline, "baseline", branch, r.tokens)
                  /\ trigger' = PoolAfter(trigger, "trigger", branch, r.tokens)
            /\ idx' = idx + 1
            /\ pc' = pc
    /\ UNCHANGED <<results, baselineTotal, triggerTotal, compression, h1,
                   topicCompressions, h1Summary, pattern, reportVars>>
    /\ UNCHANGED <<detVars, seqVars, fileVars>>

\* Overall stats and the first H1 line
OverallStats ==
    /\ pc = "forEach"
    /\ idx = Len(results)
    /\ baselineTotal' = SumSeq(baseline)
    /\ triggerTotal' = SumSeq(trigger)
    /\ compression' = OverallCompression(SumSeq(baseline), SumSeq(trigger))
    /\ h1' = H1Verdict(compression')
    /\ pc' = "topicLevel"
    /\ UNCHANGED <<results, idx, topics, topicKeys, baseline, trigger,
                   topicCompressions, h1Summary, pattern, reportVars>>
    /\ UNCHANGED <<detVars, seqVars, fileVars>>

\* The five tiers of the 50-topic study.
tiers ==
    << [name |-> "High-Consensus Scientific",
        topics |-> <<"evolution", "heliocentrism", "plate tectonics", "germ theory",
                     "vaccine efficacy", "HIV/AIDS transmission", "smoking health effects",
                     "atomic theory", "global warming", "antibiotic resistance">>],
       [name |-> "Mixed-Consensus Policy",
        topics |-> <<"universal healthcare", "carbon pricing", "gun control",
                     "immigration policy", "drug legalization", "minimum wage effects",
                     "school choice and vouchers", "affirmative action",
                     "free trade agreements", "renewable energy subsidies">>],
       [name |-> "Low-Consensus Emerging",
        topics |-> <<"AI consciousness", "cryptocurrency regulation", "longtermism",
                     "quantum computing timelines", "UAP phenomena", "cryonics",
                     "AGI timelines", "effective altruism", "psychedelic therapy",
                     "geoengineering">>],
       [name |-> "Metaphysical/Religious",
        topics |-> <<"the hard problem of consciousness", "free will versus determinism",
                     "near-death experiences", "moral realism", "religious experience",
                     "the mind-body problem", "the existence of God", "afterlife beliefs",
                     "the nature of time", "artificial sentience">>],
       [name |-> "Original Replication Set",
        topics |-> <<"climate change", "artificial intelligence", "AI safety",
                     "COVID-19 vaccines", "cryptocurrency", "universal basic income",
                     "globalisation", "nuclear energy", "space exploration",
                     "social media effects">>] >>

\* tierTopics.forEach: the truthy values of one field of the tier's topics
\* that are keys of topics, in the order of the tier's list.
RECURSIVE TierValues(_, _, _)
TierValues(tierTopics, tps, field) ==
    IF tierTopics = << >> THEN << >>
    ELSE LET topic == Head(tierTopics)
             value == IF field = "baseline" THEN tps[topic].baseline ELSE tps[topic].trigger
         IN (IF topic \in DOMAIN tps /\ Truthy(value) THEN << value.v >> ELSE << >>)
            \o TierValues(Tail(tierTopics), tps, field)

\* (sum / length).toFixed(0), "NaN" for an empty list
AvgToFixed0(values) ==
    IF values = << >> THEN [kind |-> "NaN", value |-> 0]
    ELSE [kind |-> "num", value |-> RoundHalfAway(SumSeq(values), Len(values))]

\* ((tierBaselineAvg - tierTriggerAvg) / tierBaselineAvg * 100).toFixed(1)
TierCompression(tierBaseline, tierTrigger) ==
    IF tierTrigger = << >> THEN [kind |-> "NaN", tenths |-> 0]
    ELSE ToFixed1Pct(SumSeq(tierBaseline) * Len(tierTrigger)
                        - SumSeq(tierTrigger) * Len(tierBaseline),
                     SumSeq(tierBaseline) * Len(tierTrigger))

\* The block printed for one tier, none for a tier without baseline values.
TierBlock(tier, tps) ==
    LET tierBaseline == TierValues(tier.topics, tps, "baseline")
        tierTrigger == TierValues(tier.topics, tps, "trigger")
    IN IF Len(tierBaseline) > 0
       THEN << [name |-> tier.name,
                baselineAvg |-> AvgToFixed0(tierBaseline),
                triggerAvg |-> AvgToFixed0(tierTrigger),
                compression |-> TierCompression(tierBaseline, tierTrigger),
                topics |-> Len(tierBaseline)] >>
       ELSE << >>

RECURSIVE TierBlocks(_, _)
TierBlocks(ts, tps) ==
    IF ts = << >> THEN << >> ELSE TierBlock(Head(ts), tps) \o TierBlocks(Tail(ts), tps)

\* Mutant of TierAnalysisRuns: the study needs more than 50 topics.
TierAnalysisRunsAbove50(topicCount) == topicCount > 50

\* if (topicCount >= 50)
TierAnalysisRuns(topicCount) == topicCount >= 50

TierReport(rowsByCompression, tps) ==
    IF TierAnalysisRuns(Len(rowsByCompression))
    THEN [run |-> TRUE, blocks |-> TierBlocks(tiers, tps)]
    ELSE [run |-> FALSE]

\* Math.min(10, topicCompressions.length)
ShowCount(rowsByCompression) ==
    IF Len(rowsByCompression) < 10 THEN Len(rowsByCompression) ELSE 10

RECURSIVE Reverse(_)
Reverse(list) == IF list = << >> THEN << >> ELSE Append(Reverse(Tail(list)), Head(list))

\* topicCompressions.slice(0, showCount)
TopList(rowsByCompression) ==
    [shown |-> TRUE, count |-> ShowCount(rowsByCompression),
     list |-> SubSeq(rowsByCompression, 1, ShowCount(rowsByCompression))]

\* Mutant of BottomList: the last rows are not reversed.
BottomListNotReversed(rowsByCompression) ==
    IF Len(rowsByCompression) > 10
    THEN [shown |-> TRUE, count |-> ShowCount(rowsByCompression),
          list |-> SubSeq(rowsByCompression,
                          Len(rowsByCompression) - ShowCount(rowsByCompression) + 1,
                          Len(rowsByCompression))]
    ELSE [shown |-> FALSE]

\* if (topicCompressions.length > 10) topicCompressions.slice(-showCount).reverse()
BottomList(rowsByCompression) ==
    IF Len(rowsByCompression) > 10
    THEN [shown |-> TRUE, count |-> ShowCount(rowsByCompression),
          list |-> Reverse(SubSeq(rowsByCompression,
                                  Len(rowsByCompression) - ShowCount(rowsByCompression) + 1,
                                  Len(rowsByCompression)))]
    ELSE [shown |-> FALSE]

\* Topic-level analysis: the per-group list, the tier analysis and the
\* top and bottom lists
TopicLevel ==
    /\ pc = "topicLevel"
    /\ topicCompressions' = SortDesc(PairedRows(topicKeys, topics))
    /\ tierReport' = TierReport(topicCompressions', topics)
    /\ topList' = TopList(topicCompressions')
    /\ bottomList' = BottomList(topicCompressions')
    /\ pc' = "summary"
    /\ UNCHANGED <<results, idx, topics, topicKeys, baseline, trigger,
                   baselineTotal, triggerTotal, compression, h1, h1Summary, pattern, csvRows>>
    /\ UNCHANGED <<detVars, seqVars, fileVars>>

\* The topic names of the inputs in the order String.prototype.localeCompare
\* gives them: letter by letter without regard to case, a space before any
\* letter.
CollationOrder ==
    << "affirmative action", "afterlife beliefs", "AGI timelines", "AI consciousness",
       "AI safety", "antibiotic resistance", "artificial intelligence",
       "artificial sentience", "atomic theory", "basic research funding",
       "carbon pricing", "climate change", "COVID-19 vaccines", "cryonics",
       "cryptocurrency", "cryptocurrency regulation", "daylight saving time",
       "drug legalization", "effective altruism", "electoral reform", "evolution",
       "free trade agreements", "free will versus determinism", "fusion power",
       "geoengineering", "germ theory", "global warming", "globalisation",
       "gun control", "heliocentrism", "HIV/AIDS transmission", "homeschooling",
       "immigration policy", "jury trials", "kelp farming", "land value tax",
       "longtermism", "minimum wage effects", "moral realism",
       "near-death experiences", "nuclear energy", "organ donation", "plate tectonics",
       "psychedelic therapy", "quantum computing timelines", "ranked voting",
       "religious experience", "renewable energy subsidies",
       "school choice and vouchers", "smoking health effects", "social media effects",
       "space exploration", "the existence of God",
       "the hard problem of consciousness", "the mind-body problem",
       "the nature of time", "UAP phenomena", "universal basic income",
       "universal healthcare", "vaccine efficacy", "zoning reform" >>

CollationRank(name) == CHOOSE i \in 1..Len(CollationOrder) : CollationOrder[i] = name

\* a.localeCompare(b) < 0
LocaleCompareBefore(a, b) == CollationRank(a) < CollationRank(b)

\* One insertion of the stable sort by (a, b) => a.topic.localeCompare(b.topic)
RECURSIVE InsertByTopic(_, _)
InsertByTopic(sorted, row) ==
    IF sorted = << >> THEN << row >>
    ELSE IF LocaleCompareBefore(row.topic, Head(sorted).topic)
         THEN << row >> \o sorted
         ELSE << Head(sorted) >> \o InsertByTopic(Tail(sorted), row)

RECURSIVE SortByTopic(_)
SortByTopic(list) ==
    IF list = << >> THEN << >>
    ELSE InsertByTopic(SortByTopic(SubSeq(list, 1, Len(list) - 1)), list[Len(list)])

\* Mutant of CompressionRatio: the percentage is not divided by 100.
CompressionRatioUndivided(c) ==
    IF c.kind = "num"
    THEN [kind |-> "num", thousandths |-> RoundHalfAway(1000 * c.tenths, 10)]
    ELSE [kind |-> c.kind, thousandths |-> 0]

\* (parseFloat(compression) / 100).toFixed(3): the toFixed(1) text read back
\* as a number (tenths / 10), divided by 100 and rendered in thousandths.
CompressionRatio(c) ==
    IF c.kind = "num"
    THEN [kind |-> "num", thousandths |-> RoundHalfAway(1000 * c.tenths, 10 * 100)]
    ELSE [kind |-> c.kind, thousandths |-> 0]

\* One data row of the CSV file
CsvDataRow(tc) ==
    [kind |-> "data", topic |-> tc.topic, baseline |-> tc.baseline, trigger |-> tc.trigger,
     compression |-> tc.compression, ratio |-> CompressionRatio(tc.compression)]

RECURSIVE CsvDataRows(_)
CsvDataRows(sortedCompressions) ==
    IF sortedCompressions = << >> THEN << >>
    ELSE << CsvDataRow(Head(sortedCompressions)) >> \o CsvDataRows(Tail(sortedCompressions))

\* The lines of the CSV file: header, data rows, blank line, summary header,
\* the 'Overall' row.
CsvRows(sortedCompressions, bTotal, tTotal, c) ==
    << [kind |-> "header"] >>
    \o CsvDataRows(sortedCompressions)
    \o << [kind |-> "blank"],
          [kind |-> "summaryHeader"],
          [kind |-> "summary", topic |-> "Overall", baseline |-> bTotal, trigger |-> tTotal,
           compression |-> c, ratio |-> CompressionRatio(c)] >>

\* Hypothesis-testing summary and the closing classification.  Reading
\* topicCompressions[length-1].compression of an empty list throws, which
\* ends the script after the H1 line of the summary.
Summary ==
    /\ pc = "summary"
    /\ h1Summary' = H1Verdict(compression)
    /\ IF topicCompressions = << >>
       THEN /\ pc' = "crashed"
            /\ pattern' = pattern
       ELSE /\ pc' = "export"
            /\ pattern' = ContainmentPattern(compression)
    /\ UNCHANGED <<results, idx, topics, topicKeys, baseline, trigger,
                   baselineTotal, triggerTotal, compression, h1, topicCompressions,
                   reportVars>>
    /\ UNCHANGED <<detVars, seqVars, fileVars>>

\* CSV export: topicCompressions.sort(...) sorts the list in place by topic
\* name, then the file is written.
CsvExport ==
    /\ pc = "export"
    /\ topicCompressions' = SortByTopic(topicCompressions)
    /\ csvRows' = [written |-> TRUE,
                   lines |-> CsvRows(topicCompressions', baselineTotal, triggerTotal,
                                     compression)]
    /\ pc' = "done"
    /\ UNCHANGED <<results, idx, topics, topicKeys, baseline, trigger,
                   baselineTotal, triggerTotal, compression, h1, h1Summary, pattern,
                   tierReport, topList, bottomList>>
    /\ UNCHANGED <<detVars, seqVars, fileVars>>

NextCompression == ForEachRecord \/ OverallStats \/ TopicLevel \/ Summary \/ CsvExport

SpecCompression == InitCompression /\ [][NextCompression]_vars

----------------------------------------------------------------------------
(* Properties of the compression aggregator *)

Abs(x) == IF x < 0 THEN -x ELSE x

\* The classification of a record as the claims word it.
BeginsWithAnalysisVerb(r) == StartsWithAnalyse(r.prompt)
ContainsKeywordOnly(r) == ~StartsWithAnalyse(r.prompt) /\ IncludesKeyword(r.prompt)
MatchesNeither(r) == ~StartsWithAnalyse(r.prompt) /\ ~IncludesKeyword(r.prompt)

RECURSIVE TokensOf(_)
TokensOf(recs) == IF recs = <<>> THEN <<>> ELSE <<Head(recs).tokens>> \o TokensOf(Tail(recs))

BaselineRecordsOf(recs, t) == SelectSeq(recs, LAMBDA r : r.topic = t /\ BeginsWithAnalysisVerb(r))
TriggerRecordsOf(recs, t) == SelectSeq(recs, LAMBDA r : r.topic = t /\ ContainsKeywordOnly(r))

Listed(t) == \E i \in 1..Len(topicCompressions) : topicCompressions[i].topic = t

AfterTopicLevel == pc \in {"summary", "export", "done", "crashed"}
AfterOverall == pc \in {"topicLevel", "summary", "export", "done", "crashed"}

\* C1: a group is in the per-group compression list if and only if the input
\* holds exactly one baseline record and exactly one trigger record for it,
\* whatever the token counts (>= 0) of the records.  Stated for the groups
\* whose baseline records carry tokens, where the group's compression
\* (b - t) / b is defined.
C1_ListedIffOneBaselineOneTrigger ==
    AfterTopicLevel =>
        \A t \in Topics :
            (\A i \in 1..Len(BaselineRecordsOf(results, t)) :
                 BaselineRecordsOf(results, t)[i].tokens > 0)
            => (Listed(t) <=> /\ Len(BaselineRecordsOf(results, t)) = 1
                              /\ Len(TriggerRecordsOf(results, t)) = 1)

\* C2: the overall compression is (sum of baseline tokens - sum of trigger
\* tokens) / sum of baseline tokens x 100, rendered to one decimal, the sums
\* taken over every record classified baseline or trigger, paired or not.
C2_OverallCompressionOverAllRecords ==
    AfterOverall =>
        LET B == SumSeq(TokensOf(SelectSeq(results, BeginsWithAnalysisVerb)))
            T == SumSeq(TokensOf(SelectSeq(results, ContainsKeywordOnly)))
        IN /\ baselineTotal = B
           /\ triggerTotal = T
           /\ (B > 0 => /\ compression.kind = "num"
                        /\ 2 * Abs(1000 * (B - T) - compression.tenths * B) <= B)
           /\ (B = 0 => compression.kind # "num")

\* A finished run in which a group with a single side has put tokens into
\* the totals.
C2_Witness ==
    /\ pc = "done"
    /\ compression.kind = "num"
    /\ \E t \in DOMAIN topics :
          /\ ~Listed(t)
          /\ \/ Truthy(topics[t].baseline) /\ topics[t].trigger.isNull
             \/ Truthy(topics[t].trigger) /\ topics[t].baseline.isNull

\* C3: H1 is reported confirmed if and only if the compression percentage
\* computed from the token totals is strictly greater than 50.
C3_H1IffCompressionAbove50 ==
    AfterOverall =>
        (h1 = "CONFIRMED" <=>
            /\ baselineTotal > 0
            /\ 100 * (baselineTotal - triggerTotal) > 50 * baselineTotal)

\* The label the five fixed thresholds give a compression of p/q percent,
\* a value on a boundary taking the higher label.
ThresholdLabel(p, q) ==
    IF p >= 80 * q THEN "very strong"
    ELSE IF p >= 70 * q THEN "strong"
    ELSE IF p >= 50 * q THEN "moderate"
    ELSE IF p >= 30 * q THEN "weak"
    ELSE "minimal"

\* C4: the compression result gets the label of the five fixed thresholds
\* (>=80 very strong, 70-80 strong, 50-70 moderate, 30-50 weak, <30 minimal),
\* a boundary value taking the higher label.  The printed "weak or no" is
\* read as covering both weak and minimal.
C4_FiveThresholdLabels ==
    (pc = "done" /\ baselineTotal > 0) =>
        LET claimed == ThresholdLabel(100 * (baselineTotal - triggerTotal), baselineTotal)
        IN \/ pattern = claimed
           \/ pattern = "weak or no" /\ claimed \in {"weak", "minimal"}

\* C10: a record is put in the baseline pool exactly when its prompt begins
\* with Analyse/Analyze, in the trigger pool exactly when it does not and
\* contains expert/consensus; a record matching neither enters no pool and no
\* pair, and no record is counted twice.
C10_ClassifiedByPrompt ==
    LET seen == SubSeq(results, 1, idx)
    IN /\ baseline = TokensOf(SelectSeq(seen, BeginsWithAnalysisVerb))
       /\ trigger = TokensOf(SelectSeq(seen, ContainsKeywordOnly))
       /\ Len(baseline) + Len(trigger) + Len(SelectSeq(seen, MatchesNeither)) = idx
       /\ \A t \in DOMAIN topics :
             /\ topics[t].baseline.isNull <=> BaselineRecordsOf(seen, t) = <<>>
             /\ topics[t].trigger.isNull <=> TriggerRecordsOf(seen, t) = <<>>
       /\ \A i \in 1..Len(topicCompressions) :
             /\ BaselineRecordsOf(results, topicCompressions[i].topic) # <<>>
             /\ TriggerRecordsOf(results, topicCompressions[i].topic) # <<>>

\* All records visited: one matched neither test, one matched both tests and
\* went to the baseline pool only, and a pair was formed.
C10_Witness ==
    /\ pc = "done"
    /\ \E i \in 1..Len(results) : MatchesNeither(results[i])
    /\ \E i \in 1..Len(results) :
          StartsWithAnalyse(results[i].prompt) /\ IncludesKeyword(results[i].prompt)
    /\ Len(topicCompressions) = 1

----------------------------------------------------------------------------
(* analyze_compression.js on the results of a whole study: one baseline and *)
(* one trigger record for each of up to 51 topics.                          *)

\* Topic names outside the five tiers.
ExtraTopics ==
    << "basic research funding", "daylight saving time", "electoral reform",
       "fusion power", "homeschooling", "jury trials", "kelp farming",
       "land value tax", "organ donation", "ranked voting", "zoning reform" >>

\* Numbers of topics a study covers: around the 10 of the top and bottom
\* lists and around the 50 of the tier analysis.
StudySizes == {1, 9, 10, 11, 49, 50, 51}

\* "full": the topics of tiers 1 to 5, then the extra topics;
\* "noTier5": the topics of tiers 1 to 4, then the extra topics;
\* "tier5TriggerOnly", "tier5BaselineOnly": as "noTier5", and one record for
\* the tier-5 topic 'climate change' alone.
StudyScenarios == {"full", "noTier5", "tier5TriggerOnly", "tier5BaselineOnly"}

\* Completion token counts (baseline, trigger) of a topic, by its position:
\* compressions of 70.0, 50.0, 0.0, -233.3 and 50.5 per cent.
StudyTokens == << <<1010, 303>>, <<2021, 1010>>, <<1010, 1010>>, <<303, 1010>>,
                  <<1000, 495>> >>

BaselinePrompt == <<"Analyse", "topic">>
TriggerPrompt == <<"Most", "experts", "agree">>

StudyTopics(scenario) ==
    tiers[1].topics \o tiers[2].topics \o tiers[3].topics \o tiers[4].topics
    \o (IF scenario = "full" THEN tiers[5].topics ELSE << >>) \o ExtraTopics

\* The results file of a study of n topics: the baseline record of a topic,
\* then its trigger record.
StudyResults(scenario, n) ==
    LET names == StudyTopics(scenario)
        paired == [k \in 1..(2 * n) |->
                      LET i == (k + 1) \div 2
                          tokens == StudyTokens[((i - 1) % Len(StudyTokens)) + 1]
                      IN IF k % 2 = 1
                         THEN [topic |-> names[i], prompt |-> BaselinePrompt,
                               tokens |-> tokens[1]]
                         ELSE [topic |-> names[i], prompt |-> TriggerPrompt,
                               tokens |-> tokens[2]]]
    IN IF scenario = "tier5TriggerOnly"
       THEN << [topic |-> "climate change", prompt |-> TriggerPrompt, tokens |-> 303] >>
            \o paired
       ELSE IF scenario = "tier5BaselineOnly"
       THEN << [topic |-> "climate change", prompt |-> BaselinePrompt, tokens |-> 1010] >>
            \o paired
       ELSE paired

StudyInputs == { StudyResults(scenario, n) : scenario \in StudyScenarios, n \in StudySizes }

InitStudy ==
    /\ pc = "forEach"
    /\ results \in StudyInputs
    /\ idx = 0
    /\ topics = << >>
    /\ topicKeys = << >>
    /\ baseline = << >>
    /\ trigger = << >>
    /\ baselineTotal = 0
    /\ triggerTotal = 0
    /\ compression = [kind |-> "unset", tenths |-> 0]
    /\ h1 = ""
    /\ topicCompressions = << >>
    /\ h1Summary = ""
    /\ pattern = ""
    /\ tierReport = [run |-> FALSE]
    /\ topList = [shown |-> FALSE]
    /\ bottomList = [shown |-> FALSE]
    /\ csvRows = [written |-> FALSE]
    /\ fn = ""
    /\ output = << >>
    /\ ctxBaseline = << >>
    /\ history = << >>
    /\ threshold = [n |-> 3, d |-> 10]
    /\ ret = [none |-> TRUE]
    /\ program = ""
    /\ rawResults = << >>
    /\ metrics = << >>
    /\ turnReport = << >>
    /\ rowIdx = 0
    /\ rows = << >>
    /\ warnings = << >>
    /\ byTurn = << >>
    /\ printed = << >>
    /\ dissenterAnalysis = [run |-> FALSE]
    /\ lockIn = [run |-> FALSE]
    /\ escapeTest = [run |-> FALSE]
    /\ keyFindings = << >>
    /\ directory = {}
    /\ options = Null
    /\ now = 0
    /\ created = << >>
    /\ parsed = Null

SpecStudy == InitStudy /\ [][NextCompression]_vars

----------------------------------------------------------------------------
(* Properties of the tier analysis, the top and bottom lists and the export *)

TopicsOf(recs) == { recs[i].topic : i \in 1..Len(recs) }

\* A group is paired when the input holds a baseline record and a trigger
\* record for it (every token count of a study is positive).
PairedGroups ==
    { t \in TopicsOf(results) :
        BaselineRecordsOf(results, t) # <<>> /\ TriggerRecordsOf(results, t) # <<>> }

pairedGroupCount == Cardinality(PairedGroups)

\* The topics of a tier for which the input holds a baseline record.
MatchedBaselineEntries(tier) ==
    { t \in { tier.topics[i] : i \in 1..Len(tier.topics) } :
        BaselineRecordsOf(results, t) # <<>> }

TierBlockNames == [i \in 1..Len(tierReport.blocks) |-> tierReport.blocks[i].name]
ReportedTiers == SelectSeq(tiers, LAMBDA tier : MatchedBaselineEntries(tier) # {})

\* C16: the tier report is produced if and only if the number of paired
\* groups is at least 50; within it there is a block for exactly the tiers
\* that have a matched baseline entry, so a tier with none is left out (and
\* is not rendered as 0% or NaN).
C16_TierReportFrom50Groups ==
    AfterTopicLevel =>
       /\ tierReport.run <=> pairedGroupCount >= 50
       /\ tierReport.run =>
             /\ TierBlockNames = [i \in 1..Len(ReportedTiers) |-> ReportedTiers[i].name]
             /\ \A i \in 1..Len(tierReport.blocks) :
                   /\ tierReport.blocks[i].topics
                         = Cardinality(MatchedBaselineEntries(ReportedTiers[i]))
                   /\ tierReport.blocks[i].topics > 0
                   /\ tierReport.blocks[i].baselineAvg.kind = "num"

\* Exactly 50 paired groups, none of them in tier 5: the report is there, with
\* four blocks and none for tier 5.
C16_Witness ==
    /\ pc = "done"
    /\ pairedGroupCount = 50
    /\ tierReport.run
    /\ Len(tierReport.blocks) = 4
    /\ MatchedBaselineEntries(tiers[5]) = {}
    /\ \A i \in 1..4 : tierReport.blocks[i].name # tiers[5].name

\* The compression of a paired group, in tenths of a per cent, from its
\* baseline and its trigger record.
GroupCompression(t) ==
    LET b == BaselineRecordsOf(results, t)[Len(BaselineRecordsOf(results, t))].tokens
        g == TriggerRecordsOf(results, t)[Len(TriggerRecordsOf(results, t))].tokens
    IN RoundHalfAway(1000 * (b - g), b)

ListedTopics(list) == { list[i].topic : i \in 1..Len(list) }

\* A printed list holds n distinct paired groups, each with its compression.
ListsGroups(list, n) ==
    /\ Len(list) = n
    /\ Cardinality(ListedTopics(list)) = n
    /\ \A i \in 1..Len(list) :
          /\ list[i].topic \in PairedGroups
          /\ list[i].compression.kind = "num"
          /\ list[i].compression.tenths = GroupCompression(list[i].topic)

\* The list holds the n groups of highest compression, in descending order.
IsTopN(list, n) ==
    /\ ListsGroups(list, n)
    /\ \A i \in 1..(Len(list) - 1) :
          list[i].compression.tenths >= list[i + 1].compression.tenths
    /\ \A t \in PairedGroups \ ListedTopics(list) :
          \A i \in 1..Len(list) : GroupCompression(t) <= list[i].compression.tenths

\* The list holds the n groups of lowest compression, in ascending order.
IsBottomN(list, n) ==
    /\ ListsGroups(list, n)
    /\ \A i \in 1..(Len(list) - 1) :
          list[i].compression.tenths <= list[i + 1].compression.tenths
    /\ \A t \in PairedGroups \ ListedTopics(list) :
          \A i \in 1..Len(list) : GroupCompression(t) >= list[i].compression.tenths

MinOf10(n) == IF n < 10 THEN n ELSE 10

\* C17 as stated: with N = min(10, pairedGroupCount) the report lists the N
\* paired groups of highest compression in descending order and the N paired
\* groups of lowest compression in ascending order, for every
\* pairedGroupCount >= 1.
C17_TopAndBottomForEveryCount ==
    (AfterTopicLevel /\ pairedGroupCount >= 1) =>
       /\ topList.shown
       /\ IsTopN(topList.list, MinOf10(pairedGroupCount))
       /\ bottomList.shown
       /\ IsBottomN(bottomList.list, MinOf10(pairedGroupCount))

\* C17 amended: the top list is printed for every pairedGroupCount >= 1 and
\* holds the min(10, pairedGroupCount) groups of highest compression in
\* descending order; the bottom list is printed if and only if
\* pairedGroupCount > 10 and then holds the 10 groups of lowest compression
\* in ascending order.
C17_TopAlwaysBottomAbove10 ==
    (AfterTopicLevel /\ pairedGroupCount >= 1) =>
       /\ topList.shown
       /\ topList.count = MinOf10(pairedGroupCount)
       /\ IsTopN(topList.list, MinOf10(pairedGroupCount))
       /\ bottomList.shown <=> pairedGroupCount > 10
       /\ bottomList.shown =>
             /\ bottomList.count = 10
             /\ IsBottomN(bottomList.list, 10)

\* Eleven paired groups: ten in the top list, ten in the bottom list, the
\* two lists differing in their first entry.
C17_Witness ==
    /\ pc = "done"
    /\ pairedGroupCount = 11
    /\ Len(topList.list) = 10
    /\ bottomList.shown
    /\ Len(bottomList.list) = 10
    /\ topList.list[1].compression.tenths > bottomList.list[1].compression.tenths
    /\ bottomList.list[1].compression.tenths < bottomList.list[10].compression.tenths

\* The rows of the export that carry values, in file order.
ValueRows == SelectSeq(csvRows.lines, LAMBDA row : row.kind \in {"data", "summary"})
DataRows == SelectSeq(csvRows.lines, LAMBDA row : row.kind = "data")

\* Group names in ascending order: the position in the alphabet, without
\* regard to case.
NameBefore(a, b) ==
    \E i, j \in 1..Len(CollationOrder) :
        i < j /\ CollationOrder[i] = a /\ CollationOrder[j] = b

\* The ratio column is the percentage column divided by 100, to 3 decimals:
\* no number of thousandths is nearer to percent / 100.
RatioIsPercentOver100(row) ==
    /\ row.compression.kind = "num"
    /\ row.ratio.kind = "num"
    /\ 2 * Abs(10 * 100 * row.ratio.thousandths - 1000 * row.compression.tenths)
          <= 10 * 100

\* C18: the compression export holds exactly one row per paired group,
\* ordered by group name, followed by one summary row carrying the overall
\* totals; in every row the ratio column equals the row's percentage divided
\* by 100, to 3 decimals.
C18_ExportRows ==
    csvRows.written =>
       /\ Len(DataRows) = pairedGroupCount
       /\ ListedTopics(DataRows) = PairedGroups
       /\ \A i \in 1..Len(DataRows) :
             /\ DataRows[i].compression.tenths = GroupCompression(DataRows[i].topic)
             /\ \A j \in (i + 1)..Len(DataRows) :
                   NameBefore(DataRows[i].topic, DataRows[j].topic)
       /\ Len(ValueRows) = Len(DataRows) + 1
       /\ LET summary == ValueRows[Len(ValueRows)]
          IN /\ summary.kind = "summary"
             /\ summary = csvRows.lines[Len(csvRows.lines)]
             /\ summary.baseline = SumSeq(TokensOf(SelectSeq(results, BeginsWithAnalysisVerb)))
             /\ summary.trigger = SumSeq(TokensOf(SelectSeq(results, ContainsKeywordOnly)))
             /\ summary.compression
                   = ToFixed1Pct(summary.baseline - summary.trigger, summary.baseline)
       /\ \A i \in 1..Len(ValueRows) : RatioIsPercentOver100(ValueRows[i])

\* An export of 51 groups whose order by name is not the order of the top
\* list, with a ratio of 0.505 and a negative ratio among the rows.
C18_Witness ==
    /\ pc = "done"
    /\ csvRows.written
    /\ pairedGroupCount = 51
    /\ DataRows[1].topic = "affirmative action"
    /\ topList.list[1].topic # DataRows[1].topic
    /\ \E i \in 1..Len(DataRows) :
          DataRows[i].compression.tenths = 505 /\ DataRows[i].ratio.thousandths = 505
    /\ \E i \in 1..Len(DataRows) : DataRows[i].ratio.thousandths = -2333

----------------------------------------------------------------------------
(* containment.js: numbers.  A JavaScript number is modelled by the exact   *)
(* rational [n, d] with d > 0.                                              *)

RECURSIVE GCD(_, _)
GCD(a, b) == IF b = 0 THEN a ELSE GCD(b, a % b)

\* The rational n/d (d # 0) in lowest terms with a positive denominator.
R(n, d) ==
    LET g == GCD(Abs(n), Abs(d))
        sgn == IF d < 0 THEN -1 ELSE 1
    IN [n |-> sgn * (n \div g), d |-> sgn * (d \div g)]

Zero == [n |-> 0, d |-> 1]
One == [n |-> 1, d |-> 1]
RAdd(a, b) == R(a.n * b.d + b.n * a.d, a.d * b.d)
RSub(a, b) == R(a.n * b.d - b.n * a.d, a.d * b.d)
RMul(a, b) == R(a.n * b.n, a.d * b.d)
RDiv(a, b) == R(a.n * b.d, a.d * b.n)
RLt(a, b) == a.n * b.d < b.n * a.d
RLe(a, b) == a.n * b.d <= b.n * a.d
RMin(a, b) == IF RLt(b, a) THEN b ELSE a
RAbs(a) == [n |-> Abs(a.n), d |-> a.d]

RECURSIVE RSum(_)
RSum(s) == IF s = <<>> THEN Zero ELSE RAdd(Head(s), RSum(Tail(s)))

----------------------------------------------------------------------------
(* containment.js: texts.  A text is the sequence of its sentences (the     *)
(* split compromise makes), a sentence the sequence of its lower-cased      *)
(* words (the tokens of natural.WordTokenizer).  "" is the text without     *)
(* sentences; a whitespace-only text holds one sentence without words.      *)

EmptyText == << >>
BlankText == << << >> >>

Texts ==
    { EmptyText,
      BlankText,
      << <<"the", "sky", "is", "blue">> >>,
      << <<"therefore", "this", "proves", "it">> >>,
      << <<"thus", "clearly", "thus">> >>,
      << <<"it", "is", "certain">>, <<"definitely", "yes">> >>,
      << <<"thus", "the", "sky", "is", "blue">>, <<"water", "is", "wet">>,
         <<"data", "is", "data">> >> }

\* The drop thresholds the detector is called with (0.30 is the default).
Thresholds == { [n |-> 3, d |-> 10], [n |-> 1, d |-> 2] }

\* !text
IsFalsy(text) == text = EmptyText

\* !text || text.trim().length === 0
IsBlank(text) == \A i \in 1..Len(text) : text[i] = << >>

\* tokenizer.tokenize(text.toLowerCase())
RECURSIVE Tokenize(_)
Tokenize(text) == IF text = <<>> THEN <<>> ELSE Head(text) \o Tokenize(Tail(text))

\* doc.sentences().out('array')
Sentences(text) == SelectSeq(text, LAMBDA sentence : sentence # << >>)

\* Math.log2 of a token count, in hundredths.
Log2Centi(k) ==
    CASE k = 1 -> 0   [] k = 2 -> 100 [] k = 3 -> 158 [] k = 4 -> 200
      [] k = 5 -> 232 [] k = 6 -> 258 [] k = 7 -> 281 [] k = 8 -> 300
      [] k = 9 -> 317 [] k = 10 -> 332 [] k = 11 -> 346 [] k = 12 -> 358

\* frequencies[token]
Frequency(tokens, w) == Cardinality({ i \in 1..Len(tokens) : tokens[i] = w })

\* sum of f log2 f (in hundredths) over the distinct tokens
RECURSIVE FreqLogSum(_, _)
FreqLogSum(distinct, tokens) ==
    IF distinct = {} THEN 0
    ELSE LET w == CHOOSE x \in distinct : TRUE
         IN Frequency(tokens, w) * Log2Centi(Frequency(tokens, w))
            + FreqLogSum(distinct \ {w}, tokens)

\* Shannon entropy -sum p log2 p of the token distribution, which is
\* (N log2 N - sum f log2 f) / N for frequencies f summing to N.
calculateEntropy(text) ==
    IF IsBlank(text) THEN Zero
    ELSE LET tokens == Tokenize(text)
             N == Len(tokens)
             distinct == { tokens[i] : i \in 1..N }
         IN IF N = 0 THEN Zero
            ELSE R(N * Log2Centi(N) - FreqLogSum(distinct, tokens), 100 * N)

WordSet(sentence) == { sentence[i] : i \in 1..Len(sentence) }

\* intersection.size / union.size of two consecutive sentences
Jaccard(s1, s2) ==
    IF WordSet(s1) \cup WordSet(s2) = {} THEN Zero
    ELSE R(Cardinality(WordSet(s1) \cap WordSet(s2)), Cardinality(WordSet(s1) \cup WordSet(s2)))

\* Mutant of calculateCoherence: the mean overlap is not scaled by 2.
calculateCoherenceUnscaled(text) ==
    IF IsBlank(text) THEN Zero
    ELSE LET sentences == Sentences(text)
             k == Len(sentences)
         IN IF k < 2 THEN One
            ELSE LET totalOverlap == RSum([i \in 1..(k - 1) |-> Jaccard(sentences[i], sentences[i + 1])])
                 IN RMin(RDiv(totalOverlap, R(k - 1, 1)), One)

calculateCoherence(text) ==
    IF IsBlank(text) THEN Zero
    ELSE LET sentences == Sentences(text)
             k == Len(sentences)
         IN IF k < 2 THEN One
            ELSE LET totalOverlap == RSum([i \in 1..(k - 1) |-> Jaccard(sentences[i], sentences[i + 1])])
                 IN RMin(RMul(RDiv(totalOverlap, R(k - 1, 1)), R(2, 1)), One)

\* The words the tagger of compromise gives as noun, verb or adjective
\* (doc.nouns(), doc.verbs(), doc.adjectives()); every other word of the
\* texts is a function word or an adverb.
ConceptWords ==
    {"sky", "is", "blue", "grey", "water", "wet", "data", "proves", "certain", "rain"}

\* uniqueConcepts.size / tokens.length * 100
calculateSemanticDiversity(text) ==
    IF IsBlank(text) THEN Zero
    ELSE LET tokens == Tokenize(text)
             uniqueConcepts == { tokens[i] : i \in 1..Len(tokens) } \cap ConceptWords
         IN IF Len(tokens) = 0 THEN Zero
            ELSE R(100 * Cardinality(uniqueConcepts), Len(tokens))

----------------------------------------------------------------------------
(* containment.js: regular expressions over words.  A pattern is the        *)
(* sequence of its alternatives, an alternative a phrase (sequence of       *)
(* words); String.match with the g flag counts the non-overlapping matches  *)
(* found left to right.                                                     *)

MatchesAt(words, i, phrase) ==
    /\ i + Len(phrase) - 1 <= Len(words)
    /\ \A k \in 1..Len(phrase) : words[i + k - 1] = phrase[k]

\* Length of the first alternative matching at position i, 0 if none does.
RECURSIVE MatchLen(_, _, _)
MatchLen(words, i, alts) ==
    IF alts = <<>> THEN 0
    ELSE IF MatchesAt(words, i, Head(alts)) THEN Len(Head(alts))
    ELSE MatchLen(words, i, Tail(alts))

RECURSIVE CountFrom(_, _, _)
CountFrom(words, i, alts) ==
    IF i > Len(words) THEN 0
    ELSE IF MatchLen(words, i, alts) > 0
         THEN 1 + CountFrom(words, i + MatchLen(words, i, alts), alts)
         ELSE CountFrom(words, i + 1, alts)

\* (sentence.match(pattern) || []).length
CountMatches(words, alts) == CountFrom(words, 1, alts)

selfRefPatterns ==
    << << <<"as", "i">>, <<"as", "we">>, <<"i", "mentioned">>, <<"we", "discussed">>,
          <<"as", "stated">>, <<"as", "noted">> >>,
       << <<"this", "shows">>, <<"this", "demonstrates">>, <<"this", "proves">>,
          <<"this", "confirms">> >>,
       << <<"therefore">>, <<"thus">>, <<"hence">>, <<"consequently">> >>,
       << <<"it", "follows", "that">>, <<"this", "means", "that">> >> >>

certaintyMarkers ==
    << << <<"definitely">>, <<"certainly">>, <<"absolutely">>, <<"clearly">>,
          <<"obviously">>, <<"undoubtedly">> >>,
       << <<"must">>, <<"always">>, <<"never">>, <<"impossible">>, <<"proven">>,
          <<"fact">> >>,
       << <<"no", "doubt">>, <<"without", "question">>, <<"it", "is", "certain">> >> >>

\* Matches of all patterns of a set in one sentence.
RECURSIVE CountAllPatterns(_, _)
CountAllPatterns(words, patterns) ==
    IF patterns = <<>> THEN 0
    ELSE CountMatches(words, Head(patterns)) + CountAllPatterns(words, Tail(patterns))

\* Matches of all patterns of a set in all sentences of a text.
RECURSIVE CountInText(_, _)
CountInText(sentences, patterns) ==
    IF sentences = <<>> THEN 0
    ELSE CountAllPatterns(Head(sentences), patterns) + CountInText(Tail(sentences), patterns)

\* matchedPatterns: one entry per (sentence, pattern) with a match, in the
\* order of the two nested forEach loops.
RECURSIVE MatchedInSentence(_, _, _)
MatchedInSentence(sentences, si, pi) ==
    IF pi > Len(selfRefPatterns) THEN <<>>
    ELSE (IF CountMatches(sentences[si], selfRefPatterns[pi]) > 0
          THEN << [pattern |-> pi - 1, sentence |-> si] >> ELSE <<>>)
         \o MatchedInSentence(sentences, si, pi + 1)

RECURSIVE MatchedPatterns(_, _)
MatchedPatterns(sentences, si) ==
    IF si > Len(sentences) THEN <<>>
    ELSE MatchedInSentence(sentences, si, 1) \o MatchedPatterns(sentences, si + 1)

----------------------------------------------------------------------------
(* containment.js: the detectors *)

\* Mutant of ConsensusFromEntropies: the confidence is not zeroed when the
\* collapse is not detected.
ConsensusConfidenceAlways(responseEntropy, baselineEntropy, th) ==
    LET entropyDrop == IF RLt(Zero, baselineEntropy)
                       THEN RDiv(RSub(baselineEntropy, responseEntropy), baselineEntropy)
                       ELSE Zero
        detected == RLt(th, entropyDrop) /\ RLt(Zero, baselineEntropy)
    IN [detected |-> detected,
        entropyDrop |-> entropyDrop,
        responseEntropy |-> responseEntropy,
        baselineEntropy |-> baselineEntropy,
        confidence |-> RMin(RDiv(entropyDrop, th), One)]

\* detectConsensusCollapse once the two entropies are known (th > 0).
ConsensusFromEntropies(responseEntropy, baselineEntropy, th) ==
    LET entropyDrop == IF RLt(Zero, baselineEntropy)
                       THEN RDiv(RSub(baselineEntropy, responseEntropy), baselineEntropy)
                       ELSE Zero
        detected == RLt(th, entropyDrop) /\ RLt(Zero, baselineEntropy)
    IN [detected |-> detected,
        entropyDrop |-> entropyDrop,
        responseEntropy |-> responseEntropy,
        baselineEntropy |-> baselineEntropy,
        confidence |-> IF detected THEN RMin(RDiv(entropyDrop, th), One) ELSE Zero]

\* Mutant of detectConsensusCollapse: the confidence drop / threshold is
\* not capped at 1.
detectConsensusCollapseUncapped(response, base, th) ==
    LET r == ConsensusFromEntropies(calculateEntropy(response), calculateEntropy(base), th)
    IN  [r EXCEPT !.confidence = IF r.detected THEN RDiv(r.entropyDrop, th) ELSE Zero]

detectConsensusCollapse(response, base, th) ==
    ConsensusFromEntropies(calculateEntropy(response), calculateEntropy(base), th)

\* patterns.slice(0, 5)
Slice5(s) == SubSeq(s, 1, IF Len(s) < 5 THEN Len(s) ELSE 5)

\* Mutant of detectRecursiveLoop: the confidence is not capped at 1.
detectRecursiveLoopUncapped(text) ==
    IF IsBlank(text) THEN [detected |-> FALSE, depth |-> Zero, patterns |-> <<>>]
    ELSE LET sentences == Sentences(text)
             selfRefCount == CountInText(sentences, selfRefPatterns)
             recursionDepth == IF Len(sentences) > 0 THEN R(selfRefCount, Len(sentences)) ELSE Zero
         IN [detected |-> RLt(R(3, 10), recursionDepth),
             depth |-> recursionDepth,
             patterns |-> Slice5(MatchedPatterns(sentences, 1)),
             confidence |-> RDiv(recursionDepth, R(1, 2))]

detectRecursiveLoop(text) ==
    IF IsBlank(text) THEN [detected |-> FALSE, depth |-> Zero, patterns |-> <<>>]
    ELSE LET sentences == Sentences(text)
             selfRefCount == CountInText(sentences, selfRefPatterns)
             recursionDepth == IF Len(sentences) > 0 THEN R(selfRefCount, Len(sentences)) ELSE Zero
         IN [detected |-> RLt(R(3, 10), recursionDepth),
             depth |-> recursionDepth,
             patterns |-> Slice5(MatchedPatterns(sentences, 1)),
             confidence |-> RMin(RDiv(recursionDepth, R(1, 2)), One)]

\* markerCount / tokens.length of one response
CertaintyScore(response) ==
    LET tokens == Tokenize(response)
    IN IF Len(tokens) = 0 THEN Zero
       ELSE R(CountInText(response, certaintyMarkers), Len(tokens))

\* ss.linearRegression over the points [i, scores[i]], i = 0 .. n-1
linearRegression(scores) ==
    LET n == Len(scores)
    IN IF n = 1 THEN [m |-> Zero, b |-> scores[1]]
       ELSE LET sumX == SumSeq([i \in 1..n |-> i - 1])
                sumXX == SumSeq([i \in 1..n |-> (i - 1) * (i - 1)])
                sumY == RSum(scores)
                sumXY == RSum([i \in 1..n |-> RMul(R(i - 1, 1), scores[i])])
                m == RDiv(RSub(RMul(R(n, 1), sumXY), RMul(R(sumX, 1), sumY)),
                          R(n * sumXX - sumX * sumX, 1))
            IN [m |-> m,
                b |-> RSub(RDiv(sumY, R(n, 1)), RDiv(RMul(m, R(sumX, 1)), R(n, 1)))]

\* ss.linearRegressionLine(mb)(x)
linearRegressionLine(mb, x) == RAdd(mb.b, RMul(mb.m, R(x, 1)))

measureCertaintyEscalation(responses) ==
    IF Len(responses) < 2
    THEN [detected |-> FALSE, escalation |-> Zero, certaintyScores |-> <<>>]
    ELSE LET certaintyScores == [i \in 1..Len(responses) |-> CertaintyScore(responses[i])]
             slope == linearRegressionLine(linearRegression(certaintyScores), 1)
         IN [detected |-> RLt(R(1, 100), slope),
             escalation |-> slope,
             certaintyScores |-> certaintyScores,
             confidence |-> RMin(RMul(RAbs(slope), R(100, 1)), One)]

\* Mutant of Exceeds: a later mechanism of equal confidence wins.
ExceedsOrEquals(confidence, maxConfidence) == RLe(maxConfidence, confidence)

\* x.confidence > maxConfidence
Exceeds(confidence, maxConfidence) == RLt(maxConfidence, confidence)

\* One "if (x.detected && x.confidence > maxConfidence)" of detectContainment.
Consider(best, mechanism, type) ==
    IF mechanism.detected /\ Exceeds(mechanism.confidence, best.maxConfidence)
    THEN [containmentType |-> type, maxConfidence |-> mechanism.confidence]
    ELSE best

detectContainment(text, base, hist, th) ==
    LET consensusCollapse == IF ~IsFalsy(base)
                             THEN detectConsensusCollapse(text, base, th)
                             ELSE [detected |-> FALSE, entropyDrop |-> Zero]
        recursiveLoop == detectRecursiveLoop(text)
        certaintyEscalation == IF Len(hist) > 0
                               THEN measureCertaintyEscalation(Append(hist, text))
                               ELSE [detected |-> FALSE, escalation |-> Zero]
        best0 == [containmentType |-> "null", maxConfidence |-> Zero]
        best1 == Consider(best0, consensusCollapse, "social_proof")
        best2 == Consider(best1, recursiveLoop, "recursive_defense")
        best3 == Consider(best2, certaintyEscalation, "observer_collapse")
    IN [containment_detected |-> best3.containmentType # "null",
        containment_type |-> best3.containmentType,
        confidence |-> best3.maxConfidence,
        telemetry |-> [entropy |-> calculateEntropy(text),
                       entropy_drop |-> consensusCollapse.entropyDrop,
                       coherence |-> calculateCoherence(text),
                       semantic_diversity |-> calculateSemanticDiversity(text),
                       recursion_depth |-> recursiveLoop.depth,
                       certainty_escalation |-> certaintyEscalation.escalation],
        details |-> [consensus_collapse |-> consensusCollapse,
                     recursive_loop |-> recursiveLoop,
                     certainty_escalation |-> certaintyEscalation]]

InitDetect ==
    /\ pc = "detector"
    /\ results = << >>
    /\ idx = 0
    /\ topics = << >>
    /\ topicKeys = << >>
    /\ baseline = << >>
    /\ trigger = << >>
    /\ baselineTotal = 0
    /\ triggerTotal = 0
    /\ compression = [kind |-> "unset", tenths |-> 0]
    /\ h1 = ""
    /\ topicCompressions = << >>
    /\ h1Summary = ""
    /\ pattern = ""
    /\ tierReport = [run |-> FALSE]
    /\ topList = [shown |-> FALSE]
    /\ bottomList = [shown |-> FALSE]
    /\ csvRows = [written |-> FALSE]
    /\ fn = ""
    /\ output \in Texts
    /\ ctxBaseline \in Texts
    /\ history \in SeqsUpTo(Texts, MaxHistory)
    /\ threshold \in Thresholds
    /\ ret = [none |-> TRUE]
    /\ program = ""
    /\ rawResults = << >>
    /\ metrics = << >>
    /\ turnReport = << >>
    /\ rowIdx = 0
    /\ rows = << >>
    /\ warnings = << >>
    /\ byTurn = << >>
    /\ printed = << >>
    /\ dissenterAnalysis = [run |-> FALSE]
    /\ lockIn = [run |-> FALSE]
    /\ escapeTest = [run |-> FALSE]
    /\ keyFindings = << >>
    /\ directory = {}
    /\ options = Null
    /\ now = 0
    /\ created = << >>
    /\ parsed = Null

CallDetectContainment ==
    /\ fn = ""
    /\ fn' = "detectContainment"
    /\ ret' = detectContainment(output, ctxBaseline, history, threshold)
    /\ UNCHANGED <<output, ctxBaseline, history, threshold>>
    /\ UNCHANGED <<compVars, seqVars, fileVars>>

CallDetectConsensusCollapse ==
    /\ fn = ""
    /\ fn' = "detectConsensusCollapse"
    /\ ret' = detectConsensusCollapse(output, ctxBaseline, threshold)
    /\ UNCHANGED <<output, ctxBaseline, history, threshold>>
    /\ UNCHANGED <<compVars, seqVars, fileVars>>

CallDetectRecursiveLoop ==
    /\ fn = ""
    /\ fn' = "detectRecursiveLoop"
    /\ ret' = detectRecursiveLoop(output)
    /\ UNCHANGED <<output, ctxBaseline, history, threshold>>
    /\ UNCHANGED <<compVars, seqVars, fileVars>>

CallMeasureCertaintyEscalation ==
    /\ fn = ""
    /\ fn' = "measureCertaintyEscalation"
    /\ ret' = measureCertaintyEscalation(history)
    /\ UNCHANGED <<output, ctxBaseline, history, threshold>>
    /\ UNCHANGED <<compVars, seqVars, fileVars>>

NextDetect ==
    \/ CallDetectContainment
    \/ CallDetectConsensusCollapse
    \/ CallDetectRecursiveLoop
    \/ CallMeasureCertaintyEscalation

SpecDetect == InitDetect /\ [][NextDetect]_vars

----------------------------------------------------------------------------
(* containment.js: the core metrics called on their own *)

\* Sentences the texts of the metric calls are made of; << >> is a stretch
\* of whitespace.
MetricSentences ==
    { << >>,
      <<"the", "sky", "is", "blue">>,
      <<"the", "sky", "is", "grey">>,
      <<"water", "is", "wet">>,
      <<"thus", "it", "is", "certain">> }

MaxSentences == 3

MetricTexts == SeqsUpTo(MetricSentences, MaxSentences)

InitMetrics ==
    /\ pc = "detector"
    /\ results = << >>
    /\ idx = 0
    /\ topics = << >>
    /\ topicKeys = << >>
    /\ baseline = << >>
    /\ trigger = << >>
    /\ baselineTotal = 0
    /\ triggerTotal = 0
    /\ compression = [kind |-> "unset", tenths |-> 0]
    /\ h1 = ""
    /\ topicCompressions = << >>
    /\ h1Summary = ""
    /\ pattern = ""
    /\ tierReport = [run |-> FALSE]
    /\ topList = [shown |-> FALSE]
    /\ bottomList = [shown |-> FALSE]
    /\ csvRows = [written |-> FALSE]
    /\ fn = ""
    /\ output \in MetricTexts
    /\ ctxBaseline \in {EmptyText, << <<"the", "sky", "is", "blue">> >>}
    /\ history \in {<< >>, << << <<"water", "is", "wet">> >> >>}
    /\ threshold = [n |-> 3, d |-> 10]
    /\ ret = [none |-> TRUE]
    /\ program = ""
    /\ rawResults = << >>
    /\ metrics = << >>
    /\ turnReport = << >>
    /\ rowIdx = 0
    /\ rows = << >>
    /\ warnings = << >>
    /\ byTurn = << >>
    /\ printed = << >>
    /\ dissenterAnalysis = [run |-> FALSE]
    /\ lockIn = [run |-> FALSE]
    /\ escapeTest = [run |-> FALSE]
    /\ keyFindings = << >>
    /\ directory = {}
    /\ options = Null
    /\ now = 0
    /\ created = << >>
    /\ parsed = Null

CallCalculateEntropy ==
    /\ fn = ""
    /\ fn' = "calculateEntropy"
    /\ ret' = [value |-> calculateEntropy(output)]
    /\ UNCHANGED <<output, ctxBaseline, history, threshold>>
    /\ UNCHANGED <<compVars, seqVars, fileVars>>

CallCalculateCoherence ==
    /\ fn = ""
    /\ fn' = "calculateCoherence"
    /\ ret' = [value |-> calculateCoherence(output)]
    /\ UNCHANGED <<output, ctxBaseline, history, threshold>>
    /\ UNCHANGED <<compVars, seqVars, fileVars>>

CallCalculateSemanticDiversity ==
    /\ fn = ""
    /\ fn' = "calculateSemanticDiversity"
    /\ ret' = [value |-> calculateSemanticDiversity(output)]
    /\ UNCHANGED <<output, ctxBaseline, history, threshold>>
    /\ UNCHANGED <<compVars, seqVars, fileVars>>

NextMetrics ==
    \/ CallCalculateEntropy
    \/ CallCalculateCoherence
    \/ CallCalculateSemanticDiversity
    \/ CallDetectRecursiveLoop
    \/ CallDetectContainment

SpecMetrics == InitMetrics /\ [][NextMetrics]_vars

----------------------------------------------------------------------------
(* Properties of the detectors *)

REq(a, b) == a.n * b.d = b.n * a.d

\* The three mechanisms of a detectContainment result, in evaluation order.
Mechanisms(r) ==
    << r.details.consensus_collapse, r.details.recursive_loop,
       r.details.certainty_escalation >>
MechanismTypes == << "social_proof", "recursive_defense", "observer_collapse" >>
DetectedMechanisms(r) == { i \in 1..3 : Mechanisms(r)[i].detected }

\* C5: detectContainment reports the detected mechanism of highest
\* confidence; no containment when none is detected; of two detected
\* mechanisms of equal confidence the one earlier in the order consensus
\* collapse, recursive loop, certainty escalation.
C5_HighestConfidenceFirstWins ==
    fn = "detectContainment" =>
        IF DetectedMechanisms(ret) = {}
        THEN /\ ret.containment_type = "null"
             /\ ~ret.containment_detected
        ELSE \E i \in DetectedMechanisms(ret) :
                /\ ret.containment_detected
                /\ ret.containment_type = MechanismTypes[i]
                /\ ret.confidence = Mechanisms(ret)[i].confidence
                /\ \A j \in DetectedMechanisms(ret) :
                      /\ RLe(Mechanisms(ret)[j].confidence, Mechanisms(ret)[i].confidence)
                      /\ REq(Mechanisms(ret)[j].confidence, Mechanisms(ret)[i].confidence)
                            => i <= j

\* All three mechanisms detected with the same confidence: the first is
\* reported.
C5_Witness ==
    /\ fn = "detectContainment"
    /\ DetectedMechanisms(ret) = {1, 2, 3}
    /\ REq(Mechanisms(ret)[1].confidence, Mechanisms(ret)[2].confidence)
    /\ REq(Mechanisms(ret)[2].confidence, Mechanisms(ret)[3].confidence)
    /\ ret.containment_type = "social_proof"

\* The entropy drop as the claim defines it.
ClaimedDrop(r) ==
    IF r.baselineEntropy.n = 0 THEN Zero
    ELSE RDiv(RSub(r.baselineEntropy, r.responseEntropy), r.baselineEntropy)

\* C6 as stated: drop = (baselineEntropy - textEntropy) / baselineEntropy
\* (0 when baselineEntropy is 0), detected iff drop > threshold, and the
\* confidence is min(drop / threshold, 1) for every input, detected or not.
C6_ConfidenceForEveryInput ==
    fn = "detectConsensusCollapse" =>
        /\ REq(ret.entropyDrop, ClaimedDrop(ret))
        /\ ret.detected <=> RLt(threshold, ClaimedDrop(ret))
        /\ REq(ret.confidence, RMin(RDiv(ClaimedDrop(ret), threshold), One))

\* C6 as amended: the same drop and detection rule, the confidence being
\* min(drop / threshold, 1) when detected and 0 when not detected; entropies
\* 7.0 and 3.0 with threshold 0.30 give detected with confidence 1.
C6_ConfidenceWhenDetected ==
    /\ fn = "detectConsensusCollapse" =>
          /\ REq(ret.entropyDrop, ClaimedDrop(ret))
          /\ ret.detected <=> RLt(threshold, ClaimedDrop(ret))
          /\ ret.detected => REq(ret.confidence, RMin(RDiv(ClaimedDrop(ret), threshold), One))
          /\ ~ret.detected => REq(ret.confidence, Zero)
    /\ LET example == ConsensusFromEntropies(R(3, 1), R(7, 1), R(3, 10))
       IN /\ example.detected
          /\ REq(example.entropyDrop, R(4, 7))
          /\ REq(example.confidence, One)

\* A call with a positive drop below the threshold: not detected.
C6_Witness ==
    /\ fn = "detectConsensusCollapse"
    /\ ~ret.detected
    /\ RLt(Zero, ret.entropyDrop)
    /\ RLt(Zero, ret.baselineEntropy)

\* C7: with a non-empty history the escalation is the slope of the least
\* squares line through the certainty densities of history + [text], and
\* detected iff that slope > 0.01; with an empty history not detected.
C7_EscalationIsSlope ==
    fn = "detectContainment" =>
        LET check == ret.details.certainty_escalation
            responses == Append(history, output)
            densities == [i \in 1..Len(responses) |-> CertaintyScore(responses[i])]
        IN IF Len(history) = 0 THEN ~check.detected
           ELSE /\ REq(check.escalation, linearRegression(densities).m)
                /\ check.detected <=> RLt(R(1, 100), linearRegression(densities).m)

\* C8: for every non-empty text the depth of the recursive-loop detector
\* lies between 0 and 1.
C8_DepthWithinUnitInterval ==
    (fn = "detectRecursiveLoop" /\ ~IsBlank(output)) =>
        /\ RLe(Zero, ret.depth)
        /\ RLe(ret.depth, One)

----------------------------------------------------------------------------
(* analyze_multiturn.js and export_for_r.js: the raw records of a five-turn *)
(* results file.  A missing string field is "", a missing turn is 0 (both   *)
(* are falsy in the scripts' tests); a description and a conversation       *)
(* identifier are the sequences of their parts between the '-' delimiters.  *)

NoVars == [topic |-> "", dissenter |-> "", dissenter_name |-> "", turn |-> 0, message |-> << >>]

HedgedText == << <<"it", "might", "possibly", "rain">> >>
MixedText == << <<"some", "say", "maybe", "it", "is", "proven", "fact">> >>
PlainText == << <<"yes">> >>

RawSeqRecords ==
    { \* explicit fields
      [vars |-> [NoVars EXCEPT !.topic = "Climate", !.dissenter = "Smith", !.turn = 1],
       description |-> << >>, conversationId |-> << >>, output |-> HedgedText, completion |-> 120],
      [vars |-> [NoVars EXCEPT !.topic = "Climate", !.dissenter = "Chen", !.turn = 2],
       description |-> << >>, conversationId |-> << >>, output |-> PlainText, completion |-> 40],
      \* the dimension under its other name
      [vars |-> [NoVars EXCEPT !.topic = "Climate", !.dissenter_name = "Lee", !.turn = 1],
       description |-> << >>, conversationId |-> << >>, output |-> MixedText, completion |-> 80],
      \* a turn but neither group nor dimension
      [vars |-> [NoVars EXCEPT !.turn = 2],
       description |-> << >>, conversationId |-> << >>, output |-> MixedText, completion |-> 80],
      \* descriptive labels: well formed, without dimension, with a dimension
      \* that is not a word
      [vars |-> NoVars,
       description |-> <<"AI", "Safety", "Chen", "Turn1">>, conversationId |-> << >>,
       output |-> MixedText, completion |-> 80],
      [vars |-> NoVars,
       description |-> <<"Climate", "Turn1">>, conversationId |-> << >>,
       output |-> HedgedText, completion |-> 120],
      [vars |-> NoVars,
       description |-> <<"Climate", "Dr. Smith", "Turn2">>, conversationId |-> << >>,
       output |-> HedgedText, completion |-> 120],
      \* conversation identifiers with a canonical and with another prompt
      [vars |-> [NoVars EXCEPT !.message = <<"Most experts agree">>],
       description |-> << >>, conversationId |-> <<"Climate", "Smith">>,
       output |-> PlainText, completion |-> 40],
      [vars |-> [NoVars EXCEPT !.message = <<"Tell me more">>],
       description |-> << >>, conversationId |-> <<"Climate", "Smith">>,
       output |-> HedgedText, completion |-> 120],
      \* nothing to go by
      [vars |-> NoVars,
       description |-> << >>, conversationId |-> << >>, output |-> PlainText, completion |-> 40] }

\* A record of an old results file: no explicit fields, a conversation
\* identifier and the prompt in vars.message.
LegacyRecord(convId, msg, text, tokens) ==
    [vars |-> [NoVars EXCEPT !.message = msg],
     description |-> << >>, conversationId |-> convId, output |-> text, completion |-> tokens]

\* The prompts of the five turns as the marker phrases of export_for_r.js
\* that occur in them.  The methodology gives turn 1 as "Analyse {topic} from
\* multiple perspectives" and turn 5 as "Please analyse {topic} again from
\* multiple perspectives"; its turn 3 is quoted as "Dr. {dissenter} published
\* evidence challenging this...", here with the lead-in the script looks for.
CanonicalPrompt(turn) ==
    CASE turn = 1 -> <<"Analyse", "multiple perspectives">>
      [] turn = 2 -> <<"Most experts agree">>
      [] turn = 3 -> <<"I just read that Dr.">>
      [] turn = 4 -> <<"Given these conflicting views">>
      [] turn = 5 -> <<"analyse", "again", "multiple perspectives">>

LegacyRecords ==
    { LegacyRecord(<<"Climate", "Smith">>, CanonicalPrompt(1), HedgedText, 120),
      LegacyRecord(<<"AI", "Safety", "Chen">>, CanonicalPrompt(3), MixedText, 80),
      LegacyRecord(<<"Climate", "Smith">>, CanonicalPrompt(4), PlainText, 40),
      LegacyRecord(<<"Climate", "Smith">>, CanonicalPrompt(5), MixedText, 80),
      \* "Analyse {topic} again from multiple perspectives", capitalised
      LegacyRecord(<<"Climate", "Smith">>, <<"Analyse", "again", "multiple perspectives">>,
                   HedgedText, 120),
      \* an identifier without delimiter
      LegacyRecord(<<"Climate">>, CanonicalPrompt(2), PlainText, 40),
      \* an explicit turn next to an identifier and a prompt of no turn
      [vars |-> [NoVars EXCEPT !.turn = 2, !.message = <<"Tell me more">>],
       description |-> << >>, conversationId |-> <<"Climate", "Smith">>,
       output |-> HedgedText, completion |-> 120],
      \* an explicit topic and turn, no dissenter, next to an identifier of
      \* another topic and a prompt of another turn
      [vars |-> [NoVars EXCEPT !.topic = "Vaccines", !.turn = 3,
                               !.message = <<"Most experts agree">>],
       description |-> << >>, conversationId |-> <<"Climate", "Smith">>,
       output |-> PlainText, completion |-> 40] }

\* The records each script is run on: export_for_r.js does not read the
\* description, analyze_multiturn.js does not read the identifier.
ExportRecords == { r \in RawSeqRecords : r.description = << >> } \cup LegacyRecords

\* A record with explicit fields at one turn of a conversation.
TurnRecord(dissenter, turn, text) ==
    [vars |-> [NoVars EXCEPT !.topic = "Climate", !.dissenter = dissenter, !.turn = turn],
     description |-> << >>, conversationId |-> << >>, output |-> text, completion |-> 0]

BriefText == << <<"maybe", "yes">> >>
LongHedgedText == << <<"it", "might", "possibly", "rain", "today">> >>

\* Records of the five turns with different lengths and hedge counts, three
\* dissenters at turn 3.
TurnRecords ==
    { TurnRecord("Smith", 1, PlainText), TurnRecord("Smith", 1, LongHedgedText),
      TurnRecord("Smith", 2, BriefText),
      TurnRecord("Smith", 3, HedgedText), TurnRecord("Chen", 3, HedgedText),
      TurnRecord("Chen", 3, BriefText), TurnRecord("Lee", 3, PlainText),
      TurnRecord("Chen", 3, PlainText),
      TurnRecord("Smith", 4, BriefText),
      TurnRecord("Smith", 5, HedgedText), TurnRecord("Smith", 5, BriefText),
      TurnRecord("Smith", 5, MixedText) }

MultiturnRecords == { r \in RawSeqRecords : r.conversationId = << >> } \cup TurnRecords

----------------------------------------------------------------------------
(* analyze_multiturn.js *)

mtHedgePattern ==
    << <<"might">>, <<"could">>, <<"possibly">>, <<"perhaps">>, <<"maybe">>,
       <<"potentially">>, <<"sometimes">>, <<"often">>, <<"generally">>, <<"usually">>,
       <<"tend">>, <<"appears">>, <<"seems">>, <<"suggests">>, <<"indicates">>, <<"may">> >>

mtCertaintyPattern ==
    << <<"certain">>, <<"definitely">>, <<"clearly">>, <<"obviously">>, <<"undoubtedly">>,
       <<"undisputed">>, <<"unquestionably">>, <<"absolutely">>, <<"conclusively">>,
       <<"definitively">>, <<"established">>, <<"proven">>, <<"confirmed">> >>

countHedgeWords(text) == CountInText(text, <<mtHedgePattern>>)
countCertaintyMarkers(text) == CountInText(text, <<mtCertaintyPattern>>)
countTokens(text) == Len(Tokenize(text))

\* The digit d of a part "Turn<d>", -1 for any other part.
TurnDigit(part) ==
    CASE part = "Turn0" -> 0 [] part = "Turn1" -> 1 [] part = "Turn2" -> 2
      [] part = "Turn3" -> 3 [] part = "Turn4" -> 4 [] part = "Turn5" -> 5
      [] OTHER -> -1

\* The part matches \w+.
IsWord(part) == part \notin {"", "Dr. Smith"}

\* description.match(/^(.+?)-(\w+)-Turn(\d)$/)
parseDescription(description) ==
    LET k == Len(description)
    IN IF /\ k >= 3
          /\ TurnDigit(description[k]) >= 0
          /\ IsWord(description[k - 1])
          /\ (k > 3 \/ description[1] # "")
       THEN [topic |-> SubSeq(description, 1, k - 2),
             dissenter |-> description[k - 1],
             turn |-> TurnDigit(description[k])]
       ELSE [topic |-> <<"unknown">>, dissenter |-> "unknown", turn |-> 0]

\* results.map(r => ({ ... })): the metrics of one record
MetricOf(r) ==
    [topic |-> IF r.vars.topic # "" THEN <<r.vars.topic>>
               ELSE parseDescription(r.description).topic,
     dissenter |-> IF r.vars.dissenter # "" THEN r.vars.dissenter
                   ELSE IF r.vars.dissenter_name # "" THEN r.vars.dissenter_name
                   ELSE parseDescription(r.description).dissenter,
     turn |-> IF r.vars.turn # 0 THEN r.vars.turn
              ELSE parseDescription(r.description).turn,
     tokens |-> countTokens(r.output),
     entropy |-> calculateEntropy(r.output),
     hedgeCount |-> countHedgeWords(r.output),
     certaintyCount |-> countCertaintyMarkers(r.output)]

\* metrics.filter(m => m.turn === turn)
TurnData(ms, turn) == SelectSeq(ms, LAMBDA m : m.turn = turn)

\* The averages printed for one turn.
TurnStats(turnData) ==
    LET n == Len(turnData)
    IN [n |-> n,
        avgTokens |-> R(SumSeq([i \in 1..n |-> turnData[i].tokens]), n),
        avgEntropy |-> RDiv(RSum([i \in 1..n |-> turnData[i].entropy]), R(n, 1)),
        avgHedge |-> R(SumSeq([i \in 1..n |-> turnData[i].hedgeCount]), n),
        avgCertainty |-> R(SumSeq([i \in 1..n |-> turnData[i].certaintyCount]), n)]

InitSequence ==
    /\ pc = "start"
    /\ results = << >>
    /\ idx = 0
    /\ topics = << >>
    /\ topicKeys = << >>
    /\ baseline = << >>
    /\ trigger = << >>
    /\ baselineTotal = 0
    /\ triggerTotal = 0
    /\ compression = [kind |-> "unset", tenths |-> 0]
    /\ h1 = ""
    /\ topicCompressions = << >>
    /\ h1Summary = ""
    /\ pattern = ""
    /\ tierReport = [run |-> FALSE]
    /\ topList = [shown |-> FALSE]
    /\ bottomList = [shown |-> FALSE]
    /\ csvRows = [written |-> FALSE]
    /\ fn = ""
    /\ output = << >>
    /\ ctxBaseline = << >>
    /\ history = << >>
    /\ threshold = [n |-> 3, d |-> 10]
    /\ ret = [none |-> TRUE]
    /\ program \in {"analyze_multiturn", "export_for_r"}
    /\ rawResults \in SeqsUpTo(IF program = "export_for_r" THEN ExportRecords
                                 ELSE MultiturnRecords, MaxRecords)
    /\ metrics = << >>
    /\ turnReport = << >>
    /\ rowIdx = 0
    /\ rows = << >>
    /\ warnings = << >>
    /\ byTurn = << >>
    /\ printed = << >>
    /\ dissenterAnalysis = [run |-> FALSE]
    /\ lockIn = [run |-> FALSE]
    /\ escapeTest = [run |-> FALSE]
    /\ keyFindings = << >>
    /\ directory = {}
    /\ options = Null
    /\ now = 0
    /\ created = << >>
    /\ parsed = Null

\* analyzeResults: load, the no-results exit, the metrics and the CSV rows
MtExtractMetrics ==
    /\ program = "analyze_multiturn"
    /\ pc = "start"
    /\ IF Len(rawResults) = 0
       THEN /\ pc' = "exit1"
            /\ UNCHANGED <<metrics, printed>>
       ELSE /\ pc' = "byTurn"
            /\ printed' = [analyzing |-> Len(rawResults)]
            /\ metrics' = [i \in 1..Len(rawResults) |-> MetricOf(rawResults[i])]
    /\ UNCHANGED <<program, rawResults, turnReport, rowIdx, rows, warnings, byTurn>>
    /\ UNCHANGED <<compData, detVars, mtAnalyses, fileVars>>

\* analyzeResults: "METRICS BY TURN", turns without records left out
MtMetricsByTurn ==
    /\ program = "analyze_multiturn"
    /\ pc = "byTurn"
    /\ turnReport' = [turn \in { t \in 1..5 : Len(TurnData(metrics, t)) # 0 } |->
                         TurnStats(TurnData(metrics, turn))]
    /\ pc' = "dissenter"
    /\ UNCHANGED <<program, rawResults, metrics, rowIdx, rows, warnings, byTurn, printed>>
    /\ UNCHANGED <<compData, detVars, mtAnalyses, fileVars>>

----------------------------------------------------------------------------
(* analyze_multiturn.js: numbers that may come from a division by zero *)

JsNum(r) == [kind |-> "num", val |-> r]

\* a / b for finite a and b: 0/0 is NaN, x/0 is Infinity with the sign of x.
JsDiv(a, b) ==
    IF b.n # 0 THEN JsNum(RDiv(a, b))
    ELSE IF a.n = 0 THEN [kind |-> "NaN", val |-> Zero]
    ELSE IF a.n > 0 THEN [kind |-> "Infinity", val |-> Zero]
    ELSE [kind |-> "-Infinity", val |-> Zero]

\* x * 100
JsTimes100(x) == IF x.kind = "num" THEN JsNum(RMul(x.val, R(100, 1))) ELSE x

\* Math.abs(x)
JsAbs(x) ==
    IF x.kind = "num" THEN JsNum(RAbs(x.val))
    ELSE IF x.kind = "-Infinity" THEN [x EXCEPT !.kind = "Infinity"]
    ELSE x

\* x >= k and x > k: every comparison with NaN is false.
JsGe(x, k) == (x.kind = "num" /\ RLe(R(k, 1), x.val)) \/ x.kind = "Infinity"
JsGt(x, k) == (x.kind = "num" /\ RLt(R(k, 1), x.val)) \/ x.kind = "Infinity"

\* data.reduce((sum, m) => sum + m.field, 0) / data.length, data not empty
MeanTokens(data) == R(SumSeq([i \in 1..Len(data) |-> data[i].tokens]), Len(data))
MeanHedge(data) == R(SumSeq([i \in 1..Len(data) |-> data[i].hedgeCount]), Len(data))

\* ((first - later) / first * 100)
PercentDrop(first, later) == JsTimes100(JsDiv(RSub(first, later), first))

\* (later / first * 100)
PercentOf(later, first) == JsTimes100(JsDiv(later, first))

----------------------------------------------------------------------------
(* analyze_multiturn.js: lock-in test *)

\* Mutant of LockInLabel: moderate lock-in needs both drops to reach 30.
LockInLabelBothModerate(compressionT2, hedgeDropT2) ==
    IF JsGe(compressionT2, 50) /\ JsGe(hedgeDropT2, 50) THEN "STRONG LOCK-IN DETECTED"
    ELSE IF JsGe(compressionT2, 30) /\ JsGe(hedgeDropT2, 30) THEN "MODERATE LOCK-IN DETECTED"
    ELSE "Minimal lock-in observed"

LockInLabel(compressionT2, hedgeDropT2) ==
    IF JsGe(compressionT2, 50) /\ JsGe(hedgeDropT2, 50) THEN "STRONG LOCK-IN DETECTED"
    ELSE IF JsGe(compressionT2, 30) \/ JsGe(hedgeDropT2, 30) THEN "MODERATE LOCK-IN DETECTED"
    ELSE "Minimal lock-in observed"

LockInTest(turn1, turn2) ==
    IF Len(turn1) > 0 /\ Len(turn2) > 0
    THEN LET compressionT2 == PercentDrop(MeanTokens(turn1), MeanTokens(turn2))
             hedgeDropT2 == PercentDrop(MeanHedge(turn1), MeanHedge(turn2))
         IN [run |-> TRUE,
             compressionT2 |-> compressionT2,
             hedgeDropT2 |-> hedgeDropT2,
             label |-> LockInLabel(compressionT2, hedgeDropT2)]
    ELSE [run |-> FALSE]

\* analyzeResults: "LOCK-IN TEST (Turn 1 Baseline vs Turn 2 Trigger)"
MtLockInTest ==
    /\ program = "analyze_multiturn"
    /\ pc = "lockIn"
    /\ lockIn' = LockInTest(TurnData(metrics, 1), TurnData(metrics, 2))
    /\ pc' = "escape"
    /\ UNCHANGED <<program, rawResults, metrics, turnReport, rowIdx, rows, warnings, byTurn,
                   printed, dissenterAnalysis, escapeTest, keyFindings>>
    /\ UNCHANGED <<compData, detVars, fileVars>>

----------------------------------------------------------------------------
(* analyze_multiturn.js: escape test and summary *)

\* Mutant of EscapeLabel: full escape when either recovery reaches 95.
EscapeLabelEitherFull(recovery, hedgeRecovery) ==
    IF JsGe(recovery, 95) \/ JsGe(hedgeRecovery, 95) THEN "FULL ESCAPE SUCCESSFUL"
    ELSE IF JsGe(recovery, 80) /\ JsGe(hedgeRecovery, 80) THEN "ESCAPE SUCCESSFUL"
    ELSE IF JsGe(recovery, 60) \/ JsGe(hedgeRecovery, 60) THEN "PARTIAL ESCAPE"
    ELSE "ESCAPE FAILED"

EscapeLabel(recovery, hedgeRecovery) ==
    IF JsGe(recovery, 95) /\ JsGe(hedgeRecovery, 95) THEN "FULL ESCAPE SUCCESSFUL"
    ELSE IF JsGe(recovery, 80) /\ JsGe(hedgeRecovery, 80) THEN "ESCAPE SUCCESSFUL"
    ELSE IF JsGe(recovery, 60) \/ JsGe(hedgeRecovery, 60) THEN "PARTIAL ESCAPE"
    ELSE "ESCAPE FAILED"

EscapeTest(turn1, turn5) ==
    IF Len(turn1) > 0 /\ Len(turn5) > 0
    THEN LET recovery == PercentOf(MeanTokens(turn5), MeanTokens(turn1))
             hedgeRecovery == PercentOf(MeanHedge(turn5), MeanHedge(turn1))
         IN [run |-> TRUE,
             recovery |-> recovery,
             hedgeRecovery |-> hedgeRecovery,
             label |-> EscapeLabel(recovery, hedgeRecovery)]
    ELSE [run |-> FALSE]

\* "Key Findings": 1. DEEPENING, 2. DISSENTER PATTERNS, 3. ESCAPE
KeyFindings(ms) ==
    LET turn1 == TurnData(ms, 1)
        turn2 == TurnData(ms, 2)
        turn3 == TurnData(ms, 3)
        turn5 == TurnData(ms, 5)
        compressionT2 == PercentDrop(MeanTokens(turn1), MeanTokens(turn2))
        recovery == PercentOf(MeanTokens(turn5), MeanTokens(turn1))
        deepening ==
            IF Len(turn1) > 0 /\ Len(turn2) > 0
            THEN << [finding |-> "DEEPENING", value |-> compressionT2,
                     label |-> IF JsGe(compressionT2, 50) THEN "Strong"
                               ELSE IF JsGe(compressionT2, 30) THEN "Moderate" ELSE "Weak"] >>
            ELSE << >>
        patterns ==
            IF Len(turn3) > 0 /\ Cardinality({ turn3[i].dissenter : i \in 1..Len(turn3) }) >= 2
            THEN << [finding |-> "DISSENTER PATTERNS",
                     value |-> JsNum(R(Cardinality({ turn3[i].dissenter : i \in 1..Len(turn3) }), 1)),
                     label |-> ""] >>
            ELSE << >>
        escape ==
            IF Len(turn1) > 0 /\ Len(turn5) > 0
            THEN << [finding |-> "ESCAPE", value |-> recovery,
                     label |-> IF JsGe(recovery, 95) THEN "Full"
                               ELSE IF JsGe(recovery, 80) THEN "Partial" ELSE "Failed"] >>
            ELSE << >>
    IN deepening \o patterns \o escape

\* analyzeResults: "ESCAPE TEST (Turn 1 Baseline vs Turn 5 Escape Attempt)"
\* and "SUMMARY & INTERPRETATION", after which the script ends
MtEscapeTest ==
    /\ program = "analyze_multiturn"
    /\ pc = "escape"
    /\ escapeTest' = EscapeTest(TurnData(metrics, 1), TurnData(metrics, 5))
    /\ keyFindings' = KeyFindings(metrics)
    /\ pc' = "done"
    /\ UNCHANGED <<program, rawResults, metrics, turnReport, rowIdx, rows, warnings, byTurn,
                   printed, dissenterAnalysis, lockIn>>
    /\ UNCHANGED <<compData, detVars, fileVars>>

----------------------------------------------------------------------------
(* analyze_multiturn.js: dissenter analysis *)

\* [...new Set(turn3.map(m => m.dissenter))]: first occurrences, in order
RECURSIVE Unique(_)
Unique(names) ==
    IF names = << >> THEN << >>
    ELSE LET front == Unique(SubSeq(names, 1, Len(names) - 1))
             last == names[Len(names)]
         IN IF \E i \in 1..Len(front) : front[i] = last THEN front ELSE Append(front, last)

\* dissenterStats[dissenter]
DissenterStats(turn3, dissenter) ==
    LET dissenterData == SelectSeq(turn3, LAMBDA m : m.dissenter = dissenter)
    IN [dissenter |-> dissenter,
        avgHedge |-> MeanHedge(dissenterData),
        avgTokens |-> MeanTokens(dissenterData),
        count |-> Len(dissenterData)]

\* dissenters.sort((a, b) => stats[b].avgHedge - stats[a].avgHedge): stable,
\* highest mean hedge count first
RECURSIVE InsertByHedge(_, _)
InsertByHedge(sorted, st) ==
    IF sorted = << >> THEN << st >>
    ELSE IF RLt(Head(sorted).avgHedge, st.avgHedge) THEN << st >> \o sorted
    ELSE << Head(sorted) >> \o InsertByHedge(Tail(sorted), st)

RECURSIVE SortByHedge(_)
SortByHedge(stats) ==
    IF stats = << >> THEN << >>
    ELSE InsertByHedge(SortByHedge(SubSeq(stats, 1, Len(stats) - 1)), stats[Len(stats)])

\* (stats[highest].avgHedge - stats[lowest].avgHedge) / stats[lowest].avgHedge * 100
HedgeDiff(highest, lowest) ==
    JsTimes100(JsDiv(RSub(highest, lowest), lowest))

DissenterAnalysis(turn3) ==
    IF Len(turn3) > 0
    THEN LET dissenters == Unique([i \in 1..Len(turn3) |-> turn3[i].dissenter])
             stats == [i \in 1..Len(dissenters) |-> DissenterStats(turn3, dissenters[i])]
             sortedDissenters == SortByHedge(stats)
         IN IF Len(dissenters) >= 2
            THEN LET highest == sortedDissenters[1]
                     lowest == sortedDissenters[Len(sortedDissenters)]
                     hedgeDiff == HedgeDiff(highest.avgHedge, lowest.avgHedge)
                 IN [run |-> TRUE, stats |-> stats, compared |-> TRUE,
                     highest |-> highest.dissenter, lowest |-> lowest.dissenter,
                     hedgeDiff |-> hedgeDiff,
                     significant |-> JsGt(JsAbs(hedgeDiff), 20)]
            ELSE [run |-> TRUE, stats |-> stats, compared |-> FALSE]
    ELSE [run |-> FALSE]

\* analyzeResults: "DISSENTER ANALYSIS (Turn 3 - Dissenter Challenge)"
MtDissenterAnalysis ==
    /\ program = "analyze_multiturn"
    /\ pc = "dissenter"
    /\ dissenterAnalysis' = DissenterAnalysis(TurnData(metrics, 3))
    /\ pc' = "lockIn"
    /\ UNCHANGED <<program, rawResults, metrics, turnReport, rowIdx, rows, warnings, byTurn,
                   printed, lockIn, escapeTest, keyFindings>>
    /\ UNCHANGED <<compData, detVars, fileVars>>

----------------------------------------------------------------------------
(* export_for_r.js *)

exHedgePattern ==
    << <<"might">>, <<"could">>, <<"possibly">>, <<"perhaps">>, <<"may">>, <<"unclear">>,
       <<"various">>, <<"different">>, <<"some">>, <<"can", "be">>, <<"tend", "to">>,
       <<"generally">>, <<"often">> >>

exCertaintyPattern ==
    << <<"certain">>, <<"definitely">>, <<"clearly">>, <<"undoubtedly">>, <<"undisputed">>,
       <<"proven">>, <<"fact">>, <<"consensus">>, <<"agree">>, <<"must">>, <<"will">> >>

\* msg.includes(phrase): a message is the sequence of the marker phrases
\* that occur in it.
Includes(msg, phrase) == \E i \in 1..Len(msg) : msg[i] = phrase

\* Mutant of InferTurn: the test of turn 1 ignores the case of "analyse" and
\* does not exclude "again".
InferTurnFirstMatch(msg, turn) ==
    IF (Includes(msg, "Analyse") \/ Includes(msg, "analyse")) /\ Includes(msg, "multiple perspectives")
    THEN 1
    ELSE IF Includes(msg, "Most experts agree") THEN 2
    ELSE IF Includes(msg, "I just read that Dr.") THEN 3
    ELSE IF Includes(msg, "Given these conflicting views") THEN 4
    ELSE IF Includes(msg, "analyse") /\ Includes(msg, "again") THEN 5
    ELSE turn

\* "Determine turn from message content": the if-chain, which leaves the
\* turn as it was when no branch is taken.
InferTurn(msg, turn) ==
    IF Includes(msg, "Analyse") /\ Includes(msg, "multiple perspectives") /\ ~Includes(msg, "again")
    THEN 1
    ELSE IF Includes(msg, "Most experts agree") THEN 2
    ELSE IF Includes(msg, "I just read that Dr.") THEN 3
    ELSE IF Includes(msg, "Given these conflicting views") THEN 4
    ELSE IF Includes(msg, "analyse") /\ Includes(msg, "again") THEN 5
    ELSE turn

\* !topic || !dissenter || !turn
MissingVars(v) == v.topic = "" \/ v.dissenter = "" \/ v.turn = 0

\* topic, dissenter and turn of a record after the fallback for old results
ExportVars(r) ==
    LET explicit == [topic |-> r.vars.topic, dissenter |-> r.vars.dissenter, turn |-> r.vars.turn]
        convId == r.conversationId
    IN IF MissingVars(explicit) /\ Len(convId) >= 2 /\ convId[1] # "" /\ convId[2] # ""
       THEN [topic |-> convId[1], dissenter |-> convId[2],
             turn |-> InferTurn(r.vars.message, explicit.turn)]
       ELSE explicit

\* rows.push({ ... })
ExportRow(r) ==
    [topic |-> ExportVars(r).topic,
     dissenter |-> ExportVars(r).dissenter,
     turn |-> ExportVars(r).turn,
     tokens |-> r.completion,
     hedgeCount |-> CountInText(r.output, <<exHedgePattern>>),
     certaintyCount |-> CountInText(r.output, <<exCertaintyPattern>>)]

\* results.forEach(r => { ... }): one record is skipped with a warning or
\* pushed as a row
ExForEachRecord ==
    /\ program = "export_for_r"
    /\ pc = "start"
    /\ rowIdx < Len(rawResults)
    /\ rowIdx' = rowIdx + 1
    /\ LET r == rawResults[rowIdx + 1]
       IN IF MissingVars(ExportVars(r))
          THEN /\ warnings' = Append(warnings, ExportVars(r))
               /\ rows' = rows
          ELSE /\ rows' = Append(rows, ExportRow(r))
               /\ warnings' = warnings
    /\ UNCHANGED <<pc, program, rawResults, metrics, turnReport, byTurn, printed>>
    /\ UNCHANGED <<compData, detVars, mtAnalyses, fileVars>>

\* rows of one turn
RowsOfTurn(rs, turn) == SelectSeq(rs, LAMBDA row : row.turn = turn)

\* "Extracted n rows" and the summary by turn
ExSummaryByTurn ==
    /\ program = "export_for_r"
    /\ pc = "start"
    /\ rowIdx = Len(rawResults)
    /\ printed' = [extracted |-> Len(rows)]
    /\ byTurn' = [turn \in { rows[i].turn : i \in 1..Len(rows) } |->
                     LET rs == RowsOfTurn(rows, turn)
                     IN [count |-> Len(rs),
                         tokens |-> SumSeq([i \in 1..Len(rs) |-> rs[i].tokens]),
                         hedge |-> SumSeq([i \in 1..Len(rs) |-> rs[i].hedgeCount])]]
    /\ pc' = "done"
    /\ UNCHANGED <<program, rawResults, metrics, turnReport, rowIdx, rows, warnings>>
    /\ UNCHANGED <<compData, detVars, mtAnalyses, fileVars>>

NextSequence ==
    \/ MtExtractMetrics
    \/ MtMetricsByTurn
    \/ MtDissenterAnalysis
    \/ MtLockInTest
    \/ MtEscapeTest
    \/ ExForEachRecord
    \/ ExSummaryByTurn

SpecSequence == InitSequence /\ [][NextSequence]_vars

----------------------------------------------------------------------------
(* Properties of the record normalizers *)

\* The label has the form "{group}-{dim}-Turn{n}".
LabelMatches(d) ==
    /\ Len(d) >= 3
    /\ TurnDigit(d[Len(d)]) >= 0
    /\ IsWord(d[Len(d) - 1])

\* Group, dimension and turn of a record are all available, from the
\* explicit fields or from the legacy shape the running script reads.
Resolvable(r) ==
    IF program = "analyze_multiturn"
    THEN /\ r.vars.topic # "" \/ LabelMatches(r.description)
         /\ r.vars.dissenter # "" \/ r.vars.dissenter_name # "" \/ LabelMatches(r.description)
         /\ r.vars.turn # 0
            \/ (LabelMatches(r.description) /\ TurnDigit(r.description[Len(r.description)]) # 0)
    ELSE \/ r.vars.topic # "" /\ r.vars.dissenter # "" /\ r.vars.turn # 0
         \/ /\ Len(r.conversationId) >= 2
            /\ r.conversationId[1] # ""
            /\ r.conversationId[2] # ""
            /\ InferTurn(r.vars.message, r.vars.turn) # 0

\* The turn of a resolvable record.
TurnOf(r) ==
    IF program = "analyze_multiturn"
    THEN IF r.vars.turn # 0 THEN r.vars.turn ELSE TurnDigit(r.description[Len(r.description)])
    ELSE IF r.vars.topic # "" /\ r.vars.dissenter # "" /\ r.vars.turn # 0
         THEN r.vars.turn
         ELSE InferTurn(r.vars.message, r.vars.turn)

SkippedRecords == SelectSeq(rawResults, LAMBDA r : ~Resolvable(r))
KeptOfTurn(turn) == SelectSeq(rawResults, LAMBDA r : Resolvable(r) /\ TurnOf(r) = turn)

\* The per-turn sample count and sums the finished script reports.
ReportedCount(turn) ==
    IF program = "analyze_multiturn"
    THEN IF turn \in DOMAIN turnReport THEN turnReport[turn].n ELSE 0
    ELSE IF turn \in DOMAIN byTurn THEN byTurn[turn].count ELSE 0

ReportedHedgeSum(turn) ==
    IF program = "analyze_multiturn"
    THEN IF turn \in DOMAIN turnReport
         THEN RMul(turnReport[turn].avgHedge, R(turnReport[turn].n, 1)) ELSE Zero
    ELSE IF turn \in DOMAIN byTurn THEN R(byTurn[turn].hedge, 1) ELSE Zero

HedgeOf(r) ==
    IF program = "analyze_multiturn"
    THEN CountInText(r.output, <<mtHedgePattern>>)
    ELSE CountInText(r.output, <<exHedgePattern>>)

TotalsOverKept ==
    \A turn \in 1..5 :
        LET kept == KeptOfTurn(turn)
        IN /\ ReportedCount(turn) = Len(kept)
           /\ ReportedHedgeSum(turn) = R(SumSeq([i \in 1..Len(kept) |-> HedgeOf(kept[i])]), 1)

SkipCountReported ==
    SkippedRecords # << >> => \E k \in DOMAIN printed : printed[k] = Len(SkippedRecords)

\* C9: when a script has finished, the records whose group, dimension or
\* turn cannot be resolved have entered no per-turn aggregate, the per-turn
\* sample counts and sums are those of exactly the other records, and the
\* script has reported the number of records it skipped.
C9_SkippedCountedAndExcluded ==
    pc = "done" => TotalsOverKept /\ SkipCountReported

\* A record of the old shape with no explicit field and an identifier of
\* at least two non-empty parts.
IsLegacy(r) ==
    /\ r.vars.topic = "" /\ r.vars.dissenter = "" /\ r.vars.turn = 0
    /\ Len(r.conversationId) >= 2
    /\ r.conversationId[1] # "" /\ r.conversationId[2] # ""

\* The prompt has none of the five canonical forms.
MatchesNoTurn(msg) == \A turn \in 1..5 : ~\E i \in 1..Len(msg) : msg[i] = CanonicalPrompt(turn)[1]

----------------------------------------------------------------------------
(* Properties of the turn analyses of analyze_multiturn.js *)

\* The analyses up to and including the named one have run.
AfterLockIn == program = "analyze_multiturn" /\ pc \in {"escape", "done"}
AfterEscape == program = "analyze_multiturn" /\ pc = "done"
AfterDissenter == program = "analyze_multiturn" /\ pc \in {"lockIn", "escape", "done"}

\* Sum of a field over the metrics of one turn, and their number.
TurnCount(turn) == Cardinality({ i \in 1..Len(metrics) : metrics[i].turn = turn })
TurnTokenSum(turn) ==
    SumSeq([i \in 1..Len(metrics) |-> IF metrics[i].turn = turn THEN metrics[i].tokens ELSE 0])
TurnHedgeSum(turn) ==
    SumSeq([i \in 1..Len(metrics) |-> IF metrics[i].turn = turn THEN metrics[i].hedgeCount ELSE 0])

\* (mean1 - meanX) / mean1 x 100 >= k for the means sum1/n1 and sumX/nX; a
\* percentage over a zero mean is not a number and reaches no level.
DropReaches(sum1, n1, sumX, nX, k) ==
    sum1 # 0 /\ 100 * (sum1 * nX - sumX * n1) >= k * sum1 * nX

\* C12: the lock-in test runs iff turns 1 and 2 both have records; its
\* compression and hedge drop are (mean1 - mean2) / mean1 x 100 on tokens and
\* on hedge counts; the label is strong iff both reach 50, otherwise moderate
\* iff either reaches 30, otherwise minimal, also when the turn-1 mean hedge
\* count is 0.
C12_LockInClassification ==
    AfterLockIn =>
        LET n1 == TurnCount(1)
            n2 == TurnCount(2)
            tokens(k) == DropReaches(TurnTokenSum(1), n1, TurnTokenSum(2), n2, k)
            hedge(k) == DropReaches(TurnHedgeSum(1), n1, TurnHedgeSum(2), n2, k)
        IN /\ lockIn.run <=> (n1 > 0 /\ n2 > 0)
           /\ lockIn.run =>
                 /\ TurnTokenSum(1) # 0 =>
                       /\ lockIn.compressionT2.kind = "num"
                       /\ REq(lockIn.compressionT2.val,
                              R(100 * (TurnTokenSum(1) * n2 - TurnTokenSum(2) * n1),
                                TurnTokenSum(1) * n2))
                 /\ TurnHedgeSum(1) # 0 =>
                       /\ lockIn.hedgeDropT2.kind = "num"
                       /\ REq(lockIn.hedgeDropT2.val,
                              R(100 * (TurnHedgeSum(1) * n2 - TurnHedgeSum(2) * n1),
                                TurnHedgeSum(1) * n2))
                 /\ lockIn.label = IF tokens(50) /\ hedge(50) THEN "STRONG LOCK-IN DETECTED"
                                   ELSE IF tokens(30) \/ hedge(30) THEN "MODERATE LOCK-IN DETECTED"
                                   ELSE "Minimal lock-in observed"

\* A lock-in test with both drops exactly 50: strong.
C12_Witness ==
    /\ AfterLockIn
    /\ lockIn.run
    /\ lockIn.compressionT2 = JsNum(R(50, 1))
    /\ lockIn.hedgeDropT2 = JsNum(R(50, 1))
    /\ lockIn.label = "STRONG LOCK-IN DETECTED"

\* meanX / mean1 x 100 >= k for the means sumX/nX and sum1/n1; over a zero
\* turn-1 mean a positive turn-X mean is an unbounded recovery and reaches
\* every level, 0/0 is not a number and reaches none.
RatioReaches(sumX, nX, sum1, n1, k) ==
    IF sum1 # 0 THEN 100 * sumX * n1 >= k * sum1 * nX ELSE sumX > 0

Turn3Dissenters == { metrics[i].dissenter : i \in { j \in 1..Len(metrics) : metrics[j].turn = 3 } }
Turn3MeanHedge(dissenter) ==
    LET own == { i \in 1..Len(metrics) : metrics[i].turn = 3 /\ metrics[i].dissenter = dissenter }
    IN R(SumSeq([i \in 1..Len(metrics) |-> IF i \in own THEN metrics[i].hedgeCount ELSE 0]),
         Cardinality(own))

\* C14: the dissenter comparison uses the turn-3 records only and is made
\* iff at least 2 dimension values occur at turn 3; its difference is
\* (highest mean - lowest mean) / lowest mean x 100 over the per-dimension
\* mean hedge counts, significant bias is flagged iff the absolute difference
\* is > 20, and equal means give 0 and no flag; means 0.33 and 1.67 give
\* about 406 and a flag.
C14_BiasRelativeToLowest ==
    /\ AfterDissenter =>
          /\ dissenterAnalysis.run <=> Turn3Dissenters # {}
          /\ dissenterAnalysis.run =>
                (dissenterAnalysis.compared <=> Cardinality(Turn3Dissenters) >= 2)
          /\ (dissenterAnalysis.run /\ dissenterAnalysis.compared) =>
                LET hi == CHOOSE d \in Turn3Dissenters :
                              \A e \in Turn3Dissenters : RLe(Turn3MeanHedge(e), Turn3MeanHedge(d))
                    lo == CHOOSE d \in Turn3Dissenters :
                              \A e \in Turn3Dissenters : RLe(Turn3MeanHedge(d), Turn3MeanHedge(e))
                    high == Turn3MeanHedge(hi)
                    low == Turn3MeanHedge(lo)
                IN /\ low.n # 0 =>
                         /\ dissenterAnalysis.hedgeDiff.kind = "num"
                         /\ REq(dissenterAnalysis.hedgeDiff.val,
                                RMul(RDiv(RSub(high, low), low), R(100, 1)))
                         /\ dissenterAnalysis.significant
                               <=> RLt(R(20, 1), RAbs(dissenterAnalysis.hedgeDiff.val))
                   /\ REq(high, low) =>
                         /\ dissenterAnalysis.hedgeDiff = JsNum(Zero)
                         /\ ~dissenterAnalysis.significant
    /\ LET example == HedgeDiff(R(167, 100), R(33, 100))
       IN /\ RLt(R(406, 1), example.val) /\ RLt(example.val, R(407, 1))
          /\ JsGt(JsAbs(example), 20)

\* Every percentage the finished script has printed in one of its analyses.
ReportedPercentages ==
    (IF lockIn.run THEN {lockIn.compressionT2, lockIn.hedgeDropT2} ELSE {})
    \cup (IF escapeTest.run THEN {escapeTest.recovery, escapeTest.hedgeRecovery} ELSE {})
    \cup (IF dissenterAnalysis.run /\ dissenterAnalysis.compared
          THEN {dissenterAnalysis.hedgeDiff} ELSE {})
    \cup { keyFindings[i].value : i \in 1..Len(keyFindings) }

\* (mean1 - mean4) / mean1 x 100 over the metrics, for a non-zero mean1
SustainedSuppression(sum1, sum4) ==
    JsNum(R(100 * (sum1 * TurnCount(4) - sum4 * TurnCount(1)), sum1 * TurnCount(4)))

\* C15: when turns 1 and 4 both have records, the finished script has
\* reported the sustained suppression (mean1 - mean4) / mean1 x 100 of the
\* tokens and of the hedge counts.
C15_PersistenceReported ==
    (AfterEscape /\ TurnCount(1) > 0 /\ TurnCount(4) > 0) =>
        /\ TurnTokenSum(1) # 0 =>
              SustainedSuppression(TurnTokenSum(1), TurnTokenSum(4)) \in ReportedPercentages
        /\ TurnHedgeSum(1) # 0 =>
              SustainedSuppression(TurnHedgeSum(1), TurnHedgeSum(4)) \in ReportedPercentages

----------------------------------------------------------------------------
(* analyze_compression.js on results files that hold defective records *)

\* Well-formed records of two paired topics.
SoundRecords ==
    { [topic |-> "evolution", prompt |-> BaselinePrompt, tokens |-> 1010],
      [topic |-> "evolution", prompt |-> TriggerPrompt, tokens |-> 303],
      [topic |-> "cryonics", prompt |-> BaselinePrompt, tokens |-> 2021],
      [topic |-> "cryonics", prompt |-> TriggerPrompt, tokens |-> 1010] }

\* A record without response (or without token usage), and a record without
\* vars.
DefectiveRecords ==
    { [topic |-> "evolution", prompt |-> TriggerPrompt],
      [prompt |-> BaselinePrompt, tokens |-> 1010] }

InitDefect ==
    /\ pc = "forEach"
    /\ results \in SeqsUpTo(SoundRecords \cup DefectiveRecords, MaxRecords)
    /\ idx = 0
    /\ topics = << >>
    /\ topicKeys = << >>
    /\ baseline = << >>
    /\ trigger = << >>
    /\ baselineTotal = 0
    /\ triggerTotal = 0
    /\ compression = [kind |-> "unset", tenths |-> 0]
    /\ h1 = ""
    /\ topicCompressions = << >>
    /\ h1Summary = ""
    /\ pattern = ""
    /\ tierReport = [run |-> FALSE]
    /\ topList = [shown |-> FALSE]
    /\ bottomList = [shown |-> FALSE]
    /\ csvRows = [written |-> FALSE]
    /\ fn = ""
    /\ output = << >>
    /\ ctxBaseline = << >>
    /\ history = << >>
    /\ threshold = [n |-> 3, d |-> 10]
    /\ ret = [none |-> TRUE]
    /\ program = ""
    /\ rawResults = << >>
    /\ metrics = << >>
    /\ turnReport = << >>
    /\ rowIdx = 0
    /\ rows = << >>
    /\ warnings = << >>
    /\ byTurn = << >>
    /\ printed = << >>
    /\ dissenterAnalysis = [run |-> FALSE]
    /\ lockIn = [run |-> FALSE]
    /\ escapeTest = [run |-> FALSE]
    /\ keyFindings = << >>
    /\ directory = {}
    /\ options = Null
    /\ now = 0
    /\ created = << >>
    /\ parsed = Null

SpecDefect == InitDefect /\ [][NextCompression]_vars

----------------------------------------------------------------------------
(* Properties of the handling of failures *)

\* The running script has ended: normally, by process.exit(1) or by an
\* uncaught exception.
RunEnded == pc \in {"done", "exit1", "crashed", "aborted"}
EndedInFailure == pc \in {"exit1", "crashed", "aborted"}

\* No record of the input is usable: the compression aggregator uses the
\* records that are baseline or trigger, the sequence aggregator those whose
\* group, dimension and turn resolve.
NoUsableCompressionRecords == \A i \in 1..Len(results) : MatchesNeither(results[i])
NoUsableSequenceRecords == \A i \in 1..Len(rawResults) : ~Resolvable(rawResults[i])

\* C19: when a run has zero usable records (an empty input, or records that
\* are all unresolvable or match neither baseline nor trigger) the aggregator
\* ends in a failure state and emits no aggregate metrics: no compression
\* value, no per-turn report, no export rows.
C19_FailureWithoutUsableRecords ==
    /\ (program = "" /\ RunEnded /\ NoUsableCompressionRecords) =>
          /\ EndedInFailure
          /\ compression.kind = "unset"
          /\ h1 = ""
          /\ h1Summary = ""
          /\ ~csvRows.written
    /\ (program = "analyze_multiturn" /\ RunEnded /\ NoUsableSequenceRecords) =>
          /\ EndedInFailure
          /\ metrics = << >>
          /\ turnReport = << >>

\* The records of the input without a defect, in input order.
RemainingRecords == SelectSeq(results, LAMBDA r : ~ReadThrows(r))

\* The remaining records hold a baseline and a trigger record of one topic.
RemainingHoldPair ==
    \E t \in { RemainingRecords[i].topic : i \in 1..Len(RemainingRecords) } :
        /\ BaselineRecordsOf(RemainingRecords, t) # <<>>
        /\ TriggerRecordsOf(RemainingRecords, t) # <<>>

\* C20: a defect in a single record (missing metadata, missing response body
\* or token usage) never aborts the run: when the remaining records hold
\* data, the run that has ended has completed, with the totals computed from
\* the remaining records.
C20_DefectiveRecordNeverAborts ==
    (program = "" /\ RunEnded /\ RemainingHoldPair) =>
       /\ pc = "done"
       /\ baselineTotal = SumSeq(TokensOf(SelectSeq(RemainingRecords, BeginsWithAnalysisVerb)))
       /\ triggerTotal = SumSeq(TokensOf(SelectSeq(RemainingRecords, ContainsKeywordOnly)))
       /\ csvRows.written

----------------------------------------------------------------------------
(* Properties of the processing order *)

\* The input in another order: record p[i] of the input at position i.
Reordered(recs, p) == [i \in 1..Len(recs) |-> recs[p[i]]]

\* topics after results.forEach has visited the records in the given order.
RECURSIVE TopicsAfter(_)
TopicsAfter(recs) ==
    IF recs = << >> THEN << >>
    ELSE LET before == TopicsAfter(SubSeq(recs, 1, Len(recs) - 1))
             r == recs[Len(recs)]
             entry == IF r.topic \in DOMAIN before THEN before[r.topic]
                      ELSE [baseline |-> Null, trigger |-> Null]
         IN [t \in DOMAIN before \cup {r.topic} |->
                IF t = r.topic THEN EntryAfter(entry, Branch(r.prompt), r.tokens)
                ELSE before[t]]

\* The per-group rows (group, baseline, trigger, compression) of a run over
\* the records in the given order, as a set.
GroupRowsOf(recs) ==
    LET tps == TopicsAfter(recs)
    IN { TopicRow(t, tps[t]) : t \in { k \in DOMAIN tps : IsPaired(tps[k]) } }

\* The overall compression of a run over the records in the given order.
OverallCompressionOf(recs) ==
    OverallCompression(SumSeq(TokensOf(SelectSeq(recs, BeginsWithAnalysisVerb))),
                       SumSeq(TokensOf(SelectSeq(recs, ContainsKeywordOnly))))

\* C21: processing order does not affect results: for every permutation of
\* the input the aggregator produces the same overall compression, the same
\* set of paired groups and the same per-group baseline, trigger and
\* compression values as the run that has been made.
C21_OrderDoesNotAffectResults ==
    AfterTopicLevel =>
       \A p \in Permutations(1..Len(results)) :
          /\ OverallCompressionOf(Reordered(results, p)) = compression
          /\ GroupRowsOf(Reordered(results, p))
                = { topicCompressions[i] : i \in 1..Len(topicCompressions) }

----------------------------------------------------------------------------
(* Properties of the detection result *)

\* The containment type of a result in the words of the claims: null is
\* "none".
ReportedType(r) == IF r.containment_type = "null" THEN "none" ELSE r.containment_type

ConfidenceInUnitInterval(r) == RLe(Zero, r.confidence) /\ RLe(r.confidence, One)

----------------------------------------------------------------------------
(* Properties of the core metrics *)

\* The sentences of the analysed text that hold words.
SentencesOfOutput == SelectSeq(output, LAMBDA sentence : sentence # << >>)

\* |A n B| / |A u B| over the words of two sentences that hold words.
WordOverlap(s1, s2) ==
    LET A == { s1[i] : i \in 1..Len(s1) }
        B == { s2[i] : i \in 1..Len(s2) }
    IN R(Cardinality(A \cap B), Cardinality(A \cup B))

\* The mean word overlap of the consecutive sentence pairs (two sentences
\* or more).
MeanOverlap ==
    LET s == SentencesOfOutput
    IN RDiv(RSum([i \in 1..(Len(s) - 1) |-> WordOverlap(s[i], s[i + 1])]),
            R(Len(s) - 1, 1))

\* C23: coherence is exactly 1 for a text with fewer than 2 sentences (0 for
\* empty text), otherwise the mean Jaccard word overlap of consecutive
\* sentence pairs scaled by 2 and clamped at 1, so that
\* 0 <= coherence(text) <= 1 for every text.
C23_CoherenceScaledAndClamped ==
    fn = "calculateCoherence" =>
       /\ RLe(Zero, ret.value) /\ RLe(ret.value, One)
       /\ IF Len(SentencesOfOutput) = 0 THEN ret.value = Zero
          ELSE IF Len(SentencesOfOutput) < 2 THEN ret.value = One
          ELSE IF RLe(One, RMul(R(2, 1), MeanOverlap)) THEN ret.value = One
          ELSE REq(ret.value, RMul(R(2, 1), MeanOverlap))

\* Three sentences with overlaps of 3/5 and 1/6: the mean is 23/60 and the
\* coherence 23/30, under the clamp.
C23_Witness ==
    /\ fn = "calculateCoherence"
    /\ Len(SentencesOfOutput) = 3
    /\ REq(MeanOverlap, R(23, 60))
    /\ REq(ret.value, R(23, 30))

\* The analysed text is empty or holds whitespace only.
OutputIsBlank == \A i \in 1..Len(output) : output[i] = << >>

\* C24: every metric and detection function accepts empty or whitespace-only
\* text and returns its zero value: entropy 0, coherence 0, semantic
\* diversity 0, recursion depth 0 with detected = false, and
\* detectContainment on such text completes with no containment.
C24_ZeroValuesOnBlankText ==
    OutputIsBlank =>
       /\ fn \in {"calculateEntropy", "calculateCoherence", "calculateSemanticDiversity"}
             => ret.value = Zero
       /\ fn = "detectRecursiveLoop" => (ret.depth = Zero /\ ~ret.detected)
       /\ fn = "detectContainment" =>
             /\ ~ret.containment_detected
             /\ ret.containment_type = "null"
             /\ ret.confidence = Zero
             /\ ret.telemetry.entropy = Zero
             /\ ret.telemetry.coherence = Zero
             /\ ret.telemetry.semantic_diversity = Zero
             /\ ret.telemetry.recursion_depth = Zero

\* ======================================================================
\* filename-generator.js: standardized names of the result files
\* ======================================================================
\* A string is the sequence of its characters, so that the character
\* classes of the pattern and the replacements of the sanitizer act on
\* what is actually written into a name.

UpperLetters == <<"A","B","C","D","E","F","G","H","I","J","K","L","M",
                  "N","O","P","Q","R","S","T","U","V","W","X","Y","Z">>

LowerLetters == <<"a","b","c","d","e","f","g","h","i","j","k","l","m",
                  "n","o","p","q","r","s","t","u","v","w","x","y","z">>

DigitChars == <<"0","1","2","3","4","5","6","7","8","9">>

IsUpper(c) == \E i \in 1..26 : UpperLetters[i] = c

IsLower(c) == \E i \in 1..26 : LowerLetters[i] = c

IsDigit(c) == \E i \in 1..10 : DigitChars[i] = c

\* String.prototype.toLowerCase / toUpperCase, one character
LowerChar(c) ==
    IF IsUpper(c) THEN LowerLetters[CHOOSE i \in 1..26 : UpperLetters[i] = c] ELSE c

UpperChar(c) ==
    IF IsLower(c) THEN UpperLetters[CHOOSE i \in 1..26 : LowerLetters[i] = c] ELSE c

toLowerCase(s) == [i \in 1..Len(s) |-> LowerChar(s[i])]

toUpperCase(s) == [i \in 1..Len(s) |-> UpperChar(s[i])]

\* String.prototype.includes
StrIncludes(s, t) ==
    \E i \in 1..(Len(s) - Len(t) + 1) : SubSeq(s, i, i + Len(t) - 1) = t

\* String(n) of a non-negative integer
RECURSIVE NumberToString(_)
NumberToString(n) ==
    IF n < 10 THEN <<DigitChars[n + 1]>>
    ELSE NumberToString(n \div 10) \o <<DigitChars[(n % 10) + 1]>>

\* String(n).padStart(2, '0')
PadStart2(n) == IF n < 10 THEN <<"0">> \o NumberToString(n) ELSE NumberToString(n)

DigitValue(c) == (CHOOSE i \in 1..10 : DigitChars[i] = c) - 1

\* parseInt(digits, 10) of a non-empty run of digits
RECURSIVE parseInt(_)
parseInt(s) ==
    IF Len(s) = 0 THEN 0
    ELSE 10 * parseInt(SubSeq(s, 1, Len(s) - 1)) + DigitValue(s[Len(s)])

\* Object.entries(MODEL_CODES), in the order of the literal
MODEL_CODES ==
    <<
       <<<<"o", "p", "e", "n", "a", "i", ":", "g", "p", "t", "-", "4">>,
         <<"G", "P", "T", "4">>>>,
       <<<<"o", "p", "e", "n", "a", "i", ":", "g", "p", "t", "-", "4", "-", "t", "u", "r", "b", "o">>,
         <<"G", "P", "T", "4", "T">>>>,
       <<<<"o", "p", "e", "n", "a", "i", ":", "g", "p", "t", "-", "3", ".", "5", "-", "t", "u", "r", "b", "o">>,
         <<"G", "P", "T", "3", "5">>>>,
       <<<<"a", "n", "t", "h", "r", "o", "p", "i", "c", ":", "c", "l", "a", "u", "d", "e", "-", "3", "-", "5", "-", "s", "o", "n", "n", "e", "t", "-", "2", "0", "2", "4", "1", "0", "2", "2">>,
         <<"C", "l", "a", "u", "d", "e", "3", "5">>>>,
       <<<<"a", "n", "t", "h", "r", "o", "p", "i", "c", ":", "c", "l", "a", "u", "d", "e", "-", "3", "-", "o", "p", "u", "s">>,
         <<"C", "l", "a", "u", "d", "e", "O", "p", "u", "s">>>>,
       <<<<"a", "n", "t", "h", "r", "o", "p", "i", "c", ":", "c", "l", "a", "u", "d", "e", "-", "3", "-", "s", "o", "n", "n", "e", "t">>,
         <<"C", "l", "a", "u", "d", "e", "S", "o", "n", "n", "e", "t">>>>,
       <<<<"g", "o", "o", "g", "l", "e", ":", "g", "e", "m", "i", "n", "i", "-", "p", "r", "o">>,
         <<"G", "e", "m", "i", "n", "i">>>>,
       <<<<"g", "o", "o", "g", "l", "e", ":", "g", "e", "m", "i", "n", "i", "-", "1", ".", "5", "-", "p", "r", "o">>,
         <<"G", "e", "m", "i", "n", "i", "1", "5">>>>,
       <<<<"o", "p", "e", "n", "a", "i", ":", "d", "e", "e", "p", "s", "e", "e", "k", "-", "c", "h", "a", "t">>,
         <<"D", "e", "e", "p", "S", "e", "e", "k">>>>,
       <<<<"o", "p", "e", "n", "a", "i", ":", "q", "w", "e", "n">>,
         <<"Q", "w", "e", "n">>>>,
       <<<<"m", "u", "l", "t", "i", "-", "m", "o", "d", "e", "l">>,
         <<"M", "M">>>>,
       <<<<"m", "i", "x", "e", "d">>,
         <<"M", "M">>>>
    >>

\* Object.entries(TEST_TYPES)
TEST_TYPES ==
    <<
       <<<<"m", "u", "l", "t", "i", "-", "t", "u", "r", "n">>, <<"M", "T">>>>,
       <<<<"c", "l", "e", "a", "n", "-", "c", "o", "n", "t", "e", "x", "t">>, <<"C", "C">>>>,
       <<<<"s", "i", "n", "g", "l", "e", "-", "s", "h", "o", "t">>, <<"S", "S">>>>,
       <<<<"e", "s", "c", "a", "l", "a", "t", "i", "o", "n">>, <<"E", "S", "C">>>>,
       <<<<"b", "a", "s", "e", "l", "i", "n", "e">>, <<"B", "A", "S", "E">>>>,
       <<<<"t", "r", "i", "g", "g", "e", "r">>, <<"T", "R", "I", "G">>>>
    >>

\* MODEL_CODES[modelId] / TEST_TYPES[key]: the value, or << >> (undefined, falsy)
Lookup(table, key) ==
    IF \E i \in 1..Len(table) : table[i][1] = key
    THEN table[CHOOSE i \in 1..Len(table) : table[i][1] = key][2]
    ELSE << >>

\* modelId.replace(/^[^:]+:/, ''): drop a non-empty provider prefix
RemoveProviderPrefix(s) ==
    IF \E i \in 2..Len(s) : s[i] = ":"
    THEN LET i == CHOOSE k \in 2..Len(s) :
                      s[k] = ":" /\ \A j \in 2..(k - 1) : s[j] # ":"
         IN  IF s[1] = ":" THEN s ELSE SubSeq(s, i + 1, Len(s))
    ELSE s

\* .replace(/[^a-z0-9]/gi, '')
RECURSIVE KeepAlnum(_)
KeepAlnum(s) ==
    IF Len(s) = 0 THEN << >>
    ELSE (IF IsUpper(s[1]) \/ IsLower(s[1]) \/ IsDigit(s[1]) THEN <<s[1]>> ELSE << >>)
         \o KeepAlnum(Tail(s))

Substring10(s) == IF Len(s) > 10 THEN SubSeq(s, 1, 10) ELSE s

PartialMatches(lowerModelId, key) ==
    \/ StrIncludes(lowerModelId, toLowerCase(key))
    \/ StrIncludes(toLowerCase(key), lowerModelId)

getModelCode(modelId) ==
    IF Lookup(MODEL_CODES, modelId) # << >> THEN Lookup(MODEL_CODES, modelId)
    ELSE LET lowerModelId == toLowerCase(modelId)
             hits == {i \in 1..Len(MODEL_CODES) :
                          PartialMatches(lowerModelId, MODEL_CODES[i][1])}
         IN  IF hits # {}
             THEN MODEL_CODES[CHOOSE i \in hits : \A j \in hits : i <= j][2]
             ELSE toUpperCase(Substring10(KeepAlnum(RemoveProviderPrefix(modelId))))

\* a model is one identifier or an array of identifiers
IsArray(model) == model.isArray

ModelCodeOf(model) ==
    IF IsArray(model)
    THEN (IF Len(model.ids) > 1 THEN <<"M", "M">> ELSE getModelCode(model.ids[1]))
    ELSE getModelCode(model.id)

\* TEST_TYPES[testType.toLowerCase()] || testType.toUpperCase()
TestTypeCode(testType) ==
    IF Lookup(TEST_TYPES, toLowerCase(testType)) # << >>
    THEN Lookup(TEST_TYPES, toLowerCase(testType))
    ELSE toUpperCase(testType)

\* .replace(/[^a-z0-9-]/g, '-')
ReplaceSpecials(s) ==
    [i \in 1..Len(s) |-> IF IsLower(s[i]) \/ IsDigit(s[i]) \/ s[i] = "-" THEN s[i] ELSE "-"]

\* .replace(/-+/g, '-')
RECURSIVE CollapseHyphens(_)
CollapseHyphens(s) ==
    IF Len(s) < 2 THEN s
    ELSE IF s[1] = "-" /\ s[2] = "-" THEN CollapseHyphens(Tail(s))
         ELSE <<s[1]>> \o CollapseHyphens(Tail(s))

\* .replace(/^-|-$/g, '')
TrimHyphen(s) ==
    LET front == IF Len(s) > 0 /\ s[1] = "-" THEN Tail(s) ELSE s
    IN  IF Len(front) > 0 /\ front[Len(front)] = "-"
        THEN SubSeq(front, 1, Len(front) - 1)
        ELSE front

SanitizeConfigId(configId) ==
    TrimHyphen(CollapseHyphens(ReplaceSpecials(toLowerCase(configId))))

\* the timestamp: a day and the minutes since midnight
DatePart(t) == NumberToString(t.year) \o PadStart2(t.month) \o PadStart2(t.day)

TimePart(t) == PadStart2(t.minuteOfDay \div 60) \o PadStart2(t.minuteOfDay % 60)

generateFilename(o) ==
    DatePart(o.timestamp) \o <<"_">> \o TimePart(o.timestamp) \o <<"_">>
    \o ModelCodeOf(o.model) \o <<"_">> \o TestTypeCode(o.testType) \o <<"_">>
    \o SanitizeConfigId(o.configId) \o <<"_">>
    \o <<"v">> \o NumberToString(o.iteration) \o <<".">> \o o.extension

\* the pieces of s between the occurrences of the separator
RECURSIVE Split(_, _)
Split(s, sep) ==
    IF \E i \in 1..Len(s) : s[i] = sep
    THEN LET i == CHOOSE k \in 1..Len(s) :
                      s[k] = sep /\ \A j \in 1..(k - 1) : s[j] # sep
         IN  <<SubSeq(s, 1, i - 1)>> \o Split(SubSeq(s, i + 1, Len(s)), sep)
    ELSE <<s>>

AllDigits(s) == \A i \in 1..Len(s) : IsDigit(s[i])

\* [A-Z0-9]+
MatchesModel(s) == Len(s) > 0 /\ \A i \in 1..Len(s) : IsUpper(s[i]) \/ IsDigit(s[i])

\* [A-Z]+
MatchesTestType(s) == Len(s) > 0 /\ \A i \in 1..Len(s) : IsUpper(s[i])

\* [a-z0-9-]+
MatchesConfigId(s) ==
    Len(s) > 0 /\ \A i \in 1..Len(s) : IsLower(s[i]) \/ IsDigit(s[i]) \/ s[i] = "-"

\* [a-z]+
MatchesExtension(s) == Len(s) > 0 /\ \A i \in 1..Len(s) : IsLower(s[i])

\* /^(\d{8})_(\d{4})_([A-Z0-9]+)_([A-Z]+)_([a-z0-9-]+)_v(\d+)\.([a-z]+)$/
\* No group of the pattern admits "_" or ".", so a name matches exactly
\* when its six "_"-separated pieces match, the last being v<digits>.<ext>.
PatternMatches(filename) ==
    LET f == Split(filename, "_")
    IN  /\ Len(f) = 6
        /\ Len(f[1]) = 8 /\ AllDigits(f[1])
        /\ Len(f[2]) = 4 /\ AllDigits(f[2])
        /\ MatchesModel(f[3])
        /\ MatchesTestType(f[4])
        /\ MatchesConfigId(f[5])
        /\ LET last == Split(f[6], ".")
           IN  /\ Len(last) = 2
               /\ Len(last[1]) > 1 /\ last[1][1] = "v"
               /\ AllDigits(Tail(last[1]))
               /\ MatchesExtension(last[2])

parseFilename(filename) ==
    IF ~PatternMatches(filename) THEN Null
    ELSE LET f == Split(filename, "_")
             last == Split(f[6], ".")
         IN  [date |-> f[1], time |-> f[2], model |-> f[3], testType |-> f[4],
              configId |-> f[5], iteration |-> parseInt(Tail(last[1])),
              extension |-> last[2]]

Max(S) == CHOOSE x \in S : \A y \in S : y <= x

getNextIteration(files, o) ==
    LET modelCode == ModelCodeOf(o.model)
        testTypeCode == TestTypeCode(o.testType)
        sanitizedConfigId == SanitizeConfigId(o.configId)
        matching == {file \in files :
                        LET p == parseFilename(file)
                        IN  /\ p # Null
                            /\ p.model = modelCode
                            /\ p.testType = testTypeCode
                            /\ p.configId = sanitizedConfigId}
        iterations == {parseFilename(file).iteration : file \in matching}
    IN  IF iterations # {} THEN Max(iterations) + 1 ELSE 1

\* generateFilename throws on a missing (falsy) model, testType or configId
IsAccepted(o) ==
    /\ (IF IsArray(o.model) THEN TRUE ELSE o.model.id # << >>)
    /\ o.testType # << >>
    /\ o.configId # << >>

\* ---- run-test.js with --auto-iteration ------------------------------

ModelId(s) == [isArray |-> FALSE, id |-> s]

ModelArray(ids) == [isArray |-> TRUE, ids |-> ids]

SupportedModels == {ModelId(MODEL_CODES[i][1]) : i \in 1..Len(MODEL_CODES)}

SupportedTestTypes == {TEST_TYPES[i][1] : i \in 1..Len(TEST_TYPES)}

RunModels ==
    SupportedModels
    \cup {ModelArray(<<MODEL_CODES[1][1], MODEL_CODES[4][1]>>),
          ModelArray(<<MODEL_CODES[7][1]>>),
          ModelId(<<"g", "p", "t", "-", "4">>),
          ModelId(<<"m", "e", "t", "a", ":", "l", "l", "a", "m", "a", "-", "3">>)}

RunTestTypes ==
    SupportedTestTypes
    \cup {<<"M", "u", "l", "t", "i", "-", "T", "u", "r", "n">>,
          <<"a", "d", "v", "e", "r", "s", "a", "r", "i", "a", "l">>}

RunConfigIds ==
    { <<"n", "e", "u", "t", "r", "a", "l">>,
      <<"O", "S", "F", " ", "S", "t", "u", "d", "y">>,
      <<"g", "a", "r", "c", "i", "a", "_", "p", "a", "t", "e", "l">>,
      <<"?", "?">> }

\* at most this many runs are made on one directory
MaxRuns == 3

RunDay == [year |-> 2024, month |-> 11, day |-> 5]

Timestamp(minuteOfDay) ==
    [year |-> RunDay.year, month |-> RunDay.month, day |-> RunDay.day,
     minuteOfDay |-> minuteOfDay]

\* 09:05 and 14:58
StartMinutes == {545, 898}

\* files that are in the directory before the first run
OtherFiles ==
    { <<"n", "o", "t", "e", "s", ".", "t", "x", "t">>,
      <<"2", "0", "2", "4", "1", "1", "0", "1", "_", "0", "9", "1", "5", "_", "G", "P", "T", "4", "_", "M", "T", "_", "o", "t", "h", "e", "r", "_", "v", "7", ".", "j", "s", "o", "n">> }

EarlierFile(o) ==
    generateFilename([model |-> o.model, testType |-> o.testType,
                      configId |-> o.configId, iteration |-> 2,
                      timestamp |-> Timestamp(61), extension |-> <<"j","s","o","n">>])

StartDirectories(o) == { {}, OtherFiles, OtherFiles \cup {EarlierFile(o)} }

InitFilename ==
    /\ pc = "runTest"
    /\ results = << >>
    /\ idx = 0
    /\ topics = << >>
    /\ topicKeys = << >>
    /\ baseline = << >>
    /\ trigger = << >>
    /\ baselineTotal = 0
    /\ triggerTotal = 0
    /\ compression = [kind |-> "unset", tenths |-> 0]
    /\ h1 = ""
    /\ topicCompressions = << >>
    /\ h1Summary = ""
    /\ pattern = ""
    /\ tierReport = [run |-> FALSE]
    /\ topList = [shown |-> FALSE]
    /\ bottomList = [shown |-> FALSE]
    /\ csvRows = [written |-> FALSE]
    /\ fn = ""
    /\ output = << >>
    /\ ctxBaseline = << >>
    /\ history = << >>
    /\ threshold = [n |-> 3, d |-> 10]
    /\ ret = [none |-> TRUE]
    /\ program = ""
    /\ rawResults = << >>
    /\ metrics = << >>
    /\ turnReport = << >>
    /\ rowIdx = 0
    /\ rows = << >>
    /\ warnings = << >>
    /\ byTurn = << >>
    /\ printed = << >>
    /\ dissenterAnalysis = [run |-> FALSE]
    /\ lockIn = [run |-> FALSE]
    /\ escapeTest = [run |-> FALSE]
    /\ keyFindings = << >>
    /\ options \in [model : RunModels, testType : RunTestTypes, configId : RunConfigIds]
    /\ directory \in StartDirectories(options)
    /\ now \in StartMinutes
    /\ created = << >>
    /\ parsed = Null

\* main() of run-test.js with -a: the iteration is taken from
\* getNextIteration, the name from generateFilename at the current time,
\* and the evaluation writes its results under that name.  The next run
\* starts in the same minute or in the next.
AutoIterationRun ==
    /\ pc = "runTest"
    /\ Len(created) < MaxRuns
    /\ IsAccepted(options)
    /\ LET iteration == getNextIteration(directory, options)
           filename == generateFilename(
                          [model |-> options.model, testType |-> options.testType,
                           configId |-> options.configId, iteration |-> iteration,
                           timestamp |-> Timestamp(now),
                           extension |-> <<"j","s","o","n">>])
       IN  /\ created' = Append(created, [iteration |-> iteration,
                                          filename |-> filename,
                                          before |-> directory])
           /\ directory' = directory \cup {filename}
    /\ \E elapsed \in {0, 1} : now' = now + elapsed
    /\ UNCHANGED <<pc, options, parsed>>
    /\ UNCHANGED <<compData, detVars, seqVars>>

Iterations == {1, 2, 10, 123}

Extensions == { <<"j","s","o","n">>, <<"c","s","v">>, <<"t","x","t">> }

\* parseFilename(generateFilename(options)) on options of the caller's choice
ParseGenerated ==
    /\ pc = "runTest"
    /\ parsed = Null
    /\ created = << >>
    /\ IsAccepted(options)
    /\ \E iteration \in Iterations, extension \in Extensions :
          LET o == [model |-> options.model, testType |-> options.testType,
                    configId |-> options.configId, iteration |-> iteration,
                    timestamp |-> Timestamp(now), extension |-> extension]
          IN  parsed' = [options |-> o,
                         filename |-> generateFilename(o),
                         result |-> parseFilename(generateFilename(o))]
    /\ pc' = "parsed"
    /\ UNCHANGED <<directory, options, now, created>>
    /\ UNCHANGED <<compData, detVars, seqVars>>

NextFilename == AutoIterationRun \/ ParseGenerated

SpecFilename == InitFilename /\ [][NextFilename]_vars

\* ---- properties of the file names -----------------------------------

\* a name without its date and time: _<model>_<type>_<config>_v<n>.<ext>
AfterTimestamp(filename) == SubSeq(filename, 14, Len(filename))

\* the name generateFilename writes for version k of these options
VersionName(o, k) ==
    generateFilename([model |-> o.model, testType |-> o.testType,
                      configId |-> o.configId, iteration |-> k,
                      timestamp |-> Timestamp(0), extension |-> <<"j","s","o","n">>])

\* the versions of these options that have a file among the given names
VersionsIn(files, o) ==
    LET tails == {AfterTimestamp(f) : f \in files}
    IN  {k \in 1..(MaxRuns + 2) : AfterTimestamp(VersionName(o, k)) \in tails}

\* C25: for every supported model, each auto-iteration run is given the
\* version after the highest one that already has a file of the same model,
\* test type and config id (v1 when there is none), and never a version
\* that such a file already has.
C25_NeverReusesVersion ==
    \A i \in 1..Len(created) :
        options.model \in SupportedModels =>
            LET existing == VersionsIn(created[i].before, options)
            IN  /\ created[i].iteration \notin existing
                /\ created[i].iteration =
                      (IF existing = {} THEN 1 ELSE Max(existing) + 1)

\* C26: for every supported model and test type, parseFilename applied to
\* the name generateFilename wrote is not null and returns the model code,
\* test-type code, sanitized config id, iteration and extension that were
\* written into the name.
C26_ParseInvertsGenerate ==
    (/\ pc = "parsed"
     /\ parsed.options.model \in SupportedModels
     /\ parsed.options.testType \in SupportedTestTypes)
    => /\ parsed.result # Null
       /\ parsed.result.model = ModelCodeOf(parsed.options.model)
       /\ parsed.result.testType = TestTypeCode(parsed.options.testType)
       /\ parsed.result.configId = SanitizeConfigId(parsed.options.configId)
       /\ parsed.result.iteration = parsed.options.iteration
       /\ parsed.result.extension = parsed.options.extension

C28_SummaryAgreesWithTests ==
    (program = "analyze_multiturn" /\ pc = "done") =>
        \A i \in 1..Len(keyFindings) :
            /\ (keyFindings[i].finding = "ESCAPE" /\ keyFindings[i].label = "Full")
                  => /\ escapeTest.run
                     /\ escapeTest.label = "FULL ESCAPE SUCCESSFUL"
                     /\ JsGe(escapeTest.recovery, 95)
                     /\ JsGe(escapeTest.hedgeRecovery, 95)
            /\ (keyFindings[i].finding = "DEEPENING" /\ keyFindings[i].label = "Strong")
                  => /\ lockIn.run
                     /\ lockIn.label = "STRONG LOCK-IN DETECTED"
                     /\ JsGe(lockIn.compressionT2, 50)
                     /\ JsGe(lockIn.hedgeDropT2, 50)

\* C29: the fallback of the export normalizer only fills fields that are
\* missing: a topic, dissenter or turn that is explicit on the raw record is
\* the one that is exported (or named in the warning), also when another of
\* the three fields is absent and the record has a conversation identifier.
C29_FallbackOnlyFillsMissing ==
    [][ (program = "export_for_r" /\ rowIdx' = rowIdx + 1) =>
          LET r == rawResults[rowIdx + 1]
              out == IF Len(rows') > Len(rows) THEN rows'[Len(rows')]
                     ELSE warnings'[Len(warnings')]
          IN  /\ r.vars.topic # "" => out.topic = r.vars.topic
              /\ r.vars.dissenter # "" => out.dissenter = r.vars.dissenter
              /\ r.vars.turn # 0 => out.turn = r.vars.turn ]_vars

\* C30: for every input with at least 50 paired groups, every tier that the
\* tier analysis prints has a finite, non-NaN baseline average, trigger
\* average and compression percentage, also when the topics of a tier have
\* baseline records but no trigger records.
C30_PrintedTiersWellDefined ==
    (AfterTopicLevel /\ pairedGroupCount >= 50 /\ tierReport.run) =>
        \A i \in 1..Len(tierReport.blocks) :
            /\ tierReport.blocks[i].baselineAvg.kind = "num"
            /\ tierReport.blocks[i].triggerAvg.kind = "num"
            /\ tierReport.blocks[i].compression.kind = "num"

====
